---- MODULE Spec2Model ----
(***************************************************************************)
(* Model of the onboarding-pack generator: the nine-step pipeline of       *)
(* Orchestrator.run (src/src/orchestrator.ts), the provider client state   *)
(* it reads (src/unnamed/part_000, src/src/copilotSdkClient.ts) and the    *)
(* task parser Orchestrator.parseTasksFromText.                            *)
(***************************************************************************)
EXTENDS Integers, Sequences, FiniteSets, TLC

VARIABLES
  \* ---- Orchestrator (one run) ----
  config,               \* GenerationConfig: provider variant, skipLocalModel, onProgress
  pc,                   \* position of run() / executeStep
  currentStepNumber,    \* Orchestrator.currentStepNumber
  steps,                \* Orchestrator.steps (WorkflowStep records)
  reports,              \* ProgressInfo records handed to onProgress, in delivery order
  repoMetadata,         \* "null" or the scan result (number of key files, top directories)
  fileIdx,              \* loop index i of the analyze-files loop
  keyFileSummaries,     \* one entry per key file handled so far
  architectureOverview, \* "" | "fallback" | "model"
  batch1,               \* tasks parsed from the first batch
  tasks,                \* the task list of the run
  diagram,              \* sequence of diagram lines
  pack,                 \* "none" or the compiled OnboardingPack
  thrown,               \* error raised by the current step's action ("none" if none)
  result,               \* what run() handed to its caller
  \* ---- provider client ----
  isAvailable,          \* LocalModelClient.isAvailable / CopilotSdkClient.available
  inflight,             \* inference requests awaiting their reply
  calls,                \* complete() invocations made by the run
  statusReady,          \* isReady as read right after the run's status check
  extChecks,            \* status requests served by the web server during the run
  \* ---- parser harness ----
  ptext,                \* input text given to parseTasksFromText
  ppc,                  \* "input" while the text is assembled, "parsed" afterwards
  pout,                 \* the list parseTasksFromText returned
  \* ---- one provider client and the operation running on it ----
  client,               \* this.client is set (LocalModelClient / CopilotSdkClient)
  session,              \* CopilotSdkClient.session is set
  endpoint,             \* this.endpoint, as the number of re-discoveries that changed it
  cpc,                  \* position inside checkStatus / complete / dispose ("idle" if none)
  attempt,              \* loop variable attempt of checkStatus / complete
  events,               \* requests, waits and discoveries of the operation, in order
  outcome,              \* how the last finished operation ended
  everOk,               \* some checkStatus has returned available: true
  readyAtCall,          \* isReady as it was when the running complete() was called
  ops,                  \* operations started on the client
  baseURL,              \* endpoint this.client was built for by initClient
  status,               \* the FoundryLocalStatus the last checkStatus returned
  \* ---- getLocalModelClient and the users of its clients ----
  defaultClient,        \* module-level defaultClient: 0 for null, else an instance number
  created,              \* LocalModelClient instances constructed so far
  holder,               \* per user (job or request): 0 if not active, else its instance
  mutated,              \* per instance: the users whose checkStatus has written to it
  \* ---- resolveModelId harness ----
  apc,                  \* "input" before the call, "resolved" afterwards
  alias,                \* the requested model name
  cachedModels,         \* the CachedModel list
  resolved,             \* what resolveModelId returned
  \* ---- cleanMermaidDiagram harness ----
  mtext,                \* input text, line by line
  mpc,                  \* "input" while the text is assembled, "cleaned" afterwards
  mout,                 \* the lines cleanMermaidDiagram returned
  \* ---- gen-tasks ----
  batch2,               \* local batch2 of the gen-tasks action, <<>> outside of it
  \* ---- one web generation job ----
  job,                  \* the GenerationProgress of the job as runGeneration wrote it
  jpc,                  \* position of handleGenerate / runGeneration
  \* ---- loads of one model (POST /api/load-model) ----
  modelLoadJobs,        \* status of the model's entry in modelLoadJobs, "none" if absent
  proc,                 \* per accepted load: state of the spawned foundry process
  timer,                \* per accepted load: its 10-minute timer is still pending
  settled,              \* per accepted load: the promise of loadModelAsync has settled
  writes,               \* the writes to the model's entry: status and the load writing
  lreply,               \* the reply to the last load request
  \* ---- the web page polling one job ----
  currentJobId,         \* "null" or "job"
  pollpc,               \* position of pollJobStatus
  aborted,              \* pollAbort.abort() has been called
  polls,                \* GET /api/job requests made
  seenEnd,              \* a reply said completed or failed, or the user cancelled
  pollsAfter            \* GET /api/job requests made after that

runVars    == <<config, pc, currentStepNumber, steps, reports, repoMetadata, fileIdx,
                keyFileSummaries, architectureOverview, batch1, tasks, diagram, pack,
                thrown, result>>
clientVars == <<isAvailable, inflight, calls, statusReady, extChecks>>
parseVars  == <<ptext, ppc, pout>>
opVars     == <<client, session, endpoint, cpc, attempt, events, outcome, everOk,
                readyAtCall, ops, baseURL, status>>
shareVars  == <<defaultClient, created, holder, mutated>>
aliasVars  == <<apc, alias, cachedModels, resolved>>
mermaidVars == <<mtext, mpc, mout>>
taskVars   == <<batch2>>
jobVars    == <<job, jpc>>
loadVars   == <<modelLoadJobs, proc, timer, settled, writes, lreply>>
pollVars   == <<currentJobId, pollpc, aborted, polls, seenEnd, pollsAfter>>
restVars   == <<jobVars, loadVars, pollVars>>
extraVars  == <<taskVars, restVars>>
otherVars  == <<opVars, shareVars, aliasVars, mermaidVars, extraVars>>
vars       == <<runVars, clientVars, parseVars, otherVars>>

(***************************************************************************)
(* Bounds of the model                                                     *)
(***************************************************************************)
MaxKeyFiles  == 2    \* key files a scanned repository may have
MaxTopDirs   == 1    \* top-level directories a scanned repository may have
MaxExtChecks == 1    \* status requests the server answers while the run is active
MaxLines     == 12   \* lines of a text given to the parser harness
MaxNoise     == 2    \* lines of such a text that are not well-formed task headings

Min(a, b) == IF a < b THEN a ELSE b
Range(s)  == {s[i] : i \in DOMAIN s}

(***************************************************************************)
(* Response text, line by line.  A line is described by what the regular   *)
(* expressions of parseTasksFromText can see of it:                        *)
(*   mark  "start"  the line begins (after blanks / heading markup) with a *)
(*                  numbered-list marker followed by white space: a split  *)
(*                  point of the block regex;                              *)
(*         "inline" a marker occurs in the line but not as a split point   *)
(*                  ("Time: 1.5 hours", "2.x");                            *)
(*         "none"   no marker;                                             *)
(*   tlen  length of the text after the marker (of the whole line when     *)
(*         mark = "none"), trimmed and with "**" removed;                  *)
(*   diff  the value of a "Difficulty:" field on the line, or "none".      *)
(***************************************************************************)
Difficulties == {"easy", "medium", "hard"}

Line(m, t, d) == [mark |-> m, tlen |-> t, diff |-> d]
Heading   == Line("start", 3, "none")     \* "1. Title"
HeadingD  == Line("start", 3, "hard")     \* "1. Title  Difficulty: hard"
ShortHead == Line("start", 2, "none")     \* "2. ab"
EmptyHead == Line("start", 0, "none")     \* "3. " with the title on a later line
Prose     == Line("none", 3, "none")      \* "Description: ..."
ShortProse == Line("none", 2, "none")     \* "ok"
DiffLine  == Line("none", 3, "easy")      \* "Difficulty: easy"
Inline    == Line("inline", 3, "none")    \* "Time: 1.5 hours"
Blank     == Line("none", 0, "none")      \* ""

NoiseLines == {HeadingD, ShortHead, EmptyHead, Prose, ShortProse, DiffLine, Inline, Blank}
TextLines  == {Heading} \cup NoiseLines

IsBlank(l) == l.mark = "none" /\ l.tlen = 0

(***************************************************************************)
(* StarterTask: id, title (where the title text comes from) and difficulty *)
(***************************************************************************)
Task(i, src, n, d) == [id |-> i, title |-> [src |-> src, n |-> n], difficulty |-> d]

\* generateFallbackTasks: the fixed 10-item set
FallbackDifficulty ==
  <<"easy", "easy", "easy", "medium", "easy", "medium", "medium", "medium", "hard", "hard">>
generateFallbackTasks == [i \in 1..10 |-> Task(i, "fallback", i, FallbackDifficulty[i])]

(***************************************************************************)
(* parseTasksFromText                                                      *)
(***************************************************************************)
MinTitleLen == 3     \* title.length < 3 is discarded
MaxParsed   == 10    \* if (tasks.length >= 10) break
MinParsed   == 5     \* tasks.length >= 5 ? tasks : fallback

\* text.split(/(?=(?:^|\n)\s*(?:###?\s*)?\d+[\.\)\:]\s)/m): a new block starts at every
\* "start" line; the result is a sequence of blocks, each a sequence of
\* <<line, position in the text>>.
RECURSIVE SplitBlocks(_, _, _, _)
SplitBlocks(text, k, cur, acc) ==
  IF k > Len(text) THEN (IF cur = <<>> THEN acc ELSE Append(acc, cur))
  ELSE IF text[k].mark = "start"
       THEN SplitBlocks(text, k + 1, <<<<text[k], k>>>>,
                        IF cur = <<>> THEN acc ELSE Append(acc, cur))
       ELSE SplitBlocks(text, k + 1, Append(cur, <<text[k], k>>), acc)

\* .filter(b => b.trim())
taskBlocks(text) ==
  SelectSeq(SplitBlocks(text, 1, <<>>, <<>>),
            LAMBDA b : \E j \in DOMAIN b : ~IsBlank(b[j][1]))

\* block.match(/(?:###?\s*)?\d+[\.\)\:]\s*(.+?)(?:\n|$)/): the first marker of the block;
\* \s* runs over line ends, so an empty rest takes the next non-blank line as title.
\* Result: <<length of the trimmed title, position of the title's line>>, or
\* <<-1, 0>> when nothing matches.
titleMatch(b) ==
  LET marks == {j \in DOMAIN b : b[j][1].mark # "none"} IN
  IF marks = {} THEN <<-1, 0>>
  ELSE LET j == CHOOSE x \in marks : \A y \in marks : x <= y IN
       IF b[j][1].tlen > 0 THEN <<b[j][1].tlen, b[j][2]>>
       ELSE LET rest == {r \in DOMAIN b : r > j /\ ~IsBlank(b[r][1])} IN
            IF rest = {} THEN <<0, b[j][2]>>
            ELSE LET r == CHOOSE x \in rest : \A y \in rest : x <= y IN
                 <<IF b[r][1].mark = "none" THEN b[r][1].tlen ELSE b[r][1].tlen + 2,
                   b[r][2]>>

\* if (!title || title.length < 3) continue
ValidTitle(b) == titleMatch(b)[1] >= MinTitleLen

\* block.match(/Difficulty:\s*(easy|medium|hard)/i): the first field in the block
diffMatch(b) ==
  LET ds == {j \in DOMAIN b : b[j][1].diff # "none"} IN
  IF ds = {} THEN "none"
  ELSE b[CHOOSE x \in ds : \A y \in ds : x <= y][1].diff

\* idx < 3 ? 'easy' : idx < 7 ? 'medium' : 'hard'
PositionalDifficulty(idx) == IF idx < 3 THEN "easy" ELSE IF idx < 7 THEN "medium" ELSE "hard"

\* the for-loop over taskBlocks
RECURSIVE ParseLoop(_, _, _)
ParseLoop(blocks, k, acc) ==
  IF k > Len(blocks) \/ Len(acc) >= MaxParsed THEN acc
  ELSE IF ~ValidTitle(blocks[k]) THEN ParseLoop(blocks, k + 1, acc)
  ELSE LET d == diffMatch(blocks[k])
           t == Task(Len(acc) + 1, "text", titleMatch(blocks[k])[2],
                     IF d # "none" THEN d ELSE PositionalDifficulty(Len(acc)))
       IN ParseLoop(blocks, k + 1, Append(acc, t))

EnoughTasks_four(ts) == Len(ts) >= MinParsed - 1

\* tasks.length >= 5
EnoughTasks(ts) == Len(ts) >= MinParsed

parseTasksFromText(text) ==
  LET ts == ParseLoop(taskBlocks(text), 1, <<>>) IN
  IF EnoughTasks(ts) THEN ts ELSE generateFallbackTasks

(***************************************************************************)
(* cleanMermaidDiagram, on a diagram text given line by line.  An input    *)
(* line is named by its content; a name ending in "fence" is a line that   *)
(* ends with a code-fence marker (three backquotes, with or without        *)
(* "mermaid"), alone on the line or glued to the content before it.        *)
(***************************************************************************)
GraphDecls   == {"graph TD", "flowchart LR"}
MermaidLines == {"subgraph X", "end", "A-->B", "A[Label]", "style A"}
\* the two code-fence markers on a line of their own
Fences       == {"fence", "fence mermaid"}
\* a diagram line and a multi-word prose line with the closing fence glued on
GluedFences  == {"A-->B fence", "prose fence"}

\* the content of an input line without its fence marker
Body(l) == CASE l \in Fences -> ""
             [] l = "A-->B fence" -> "A-->B"
             [] l = "prose fence" -> "prose"
             [] OTHER -> l
Fenced(l) == l \in Fences \cup GluedFences

\* diagram.replace(/```mermaid\n?/g, '').replace(/```\n?/g, '').split('\n'): a
\* marker goes together with the newline after it, so what precedes the marker
\* continues with the next line.  A resulting line is the sequence of the non-empty
\* contents it is made of.
RECURSIVE RemoveFences(_, _, _, _)
RemoveFences(ls, k, cur, acc) ==
  IF k > Len(ls) THEN (IF k > 1 /\ Fenced(ls[k - 1]) THEN Append(acc, cur) ELSE acc)
  ELSE LET cur2 == IF Body(ls[k]) = "" THEN cur ELSE Append(cur, Body(ls[k]))
       IN IF Fenced(ls[k]) THEN RemoveFences(ls, k + 1, cur2, acc)
          ELSE RemoveFences(ls, k + 1, <<>>, Append(acc, cur2))

\* the tests of the for-loop on a resulting line: startsWith and the anchored
\* regular expressions look at its beginning only, 'end' must be the whole line
\* (and, continued by a node or an edge, reads as the start of an identifier)
IsDeclLine(w) == w # <<>> /\ Head(w) \in GraphDecls
isMermaidLine(w) ==
  /\ w # <<>>
  /\ \/ Head(w) \in MermaidLines \ {"end"}
     \/ w = <<"end">>
     \/ Len(w) >= 2 /\ w[1] = "end" /\ w[2] \in {"A-->B", "A[Label]"}

\* the for-loop: nothing is kept before the first declaration; afterwards blank
\* lines, declarations and whitelisted lines are kept
RECURSIVE KeepMermaid(_, _, _, _)
KeepMermaid(ls, k, foundStart, acc) ==
  IF k > Len(ls) THEN acc
  ELSE IF ls[k] = <<>> THEN KeepMermaid(ls, k + 1, foundStart,
                                        IF foundStart THEN Append(acc, <<>>) ELSE acc)
  ELSE IF IsDeclLine(ls[k]) THEN KeepMermaid(ls, k + 1, TRUE, Append(acc, ls[k]))
  ELSE IF ~foundStart THEN KeepMermaid(ls, k + 1, FALSE, acc)
  ELSE KeepMermaid(ls, k + 1, TRUE,
                   IF isMermaidLine(ls[k]) THEN Append(acc, ls[k]) ELSE acc)

\* .trim() of the joined lines: blank lines at either end disappear
RECURSIVE TrimBlank(_)
TrimBlank(ls) ==
  IF ls = <<>> THEN ls
  ELSE IF Head(ls) = <<>> THEN TrimBlank(Tail(ls))
  ELSE IF ls[Len(ls)] = <<>> THEN TrimBlank(SubSeq(ls, 1, Len(ls) - 1))
  ELSE ls

cleanMermaidLines_noPrepend(text) ==
  TrimBlank(KeepMermaid(RemoveFences(text, 1, <<>>, <<>>), 1, FALSE, <<>>))

\* cleanMermaidDiagram with each output line as the contents it is made of:
\* 'graph TD\n' is put in front of a result that does not start with a declaration
cleanMermaidLines(text) ==
  LET cleaned == TrimBlank(KeepMermaid(RemoveFences(text, 1, <<>>, <<>>), 1, FALSE, <<>>))
  IN IF cleaned # <<>> /\ IsDeclLine(Head(cleaned)) THEN cleaned
     ELSE <<<<"graph TD">>>> \o (IF cleaned = <<>> THEN <<<<>>>> ELSE cleaned)

\* the text of a line made of the contents w
RECURSIVE JoinLine(_)
JoinLine(w) == IF w = <<>> THEN "" ELSE Head(w) \o JoinLine(Tail(w))

cleanMermaidDiagram(text) ==
  LET ls == cleanMermaidLines(text) IN [i \in DOMAIN ls |-> JoinLine(ls[i])]

\* generateFallbackDiagram: 'graph TD', the root node, one edge per top directory
generateFallbackDiagram(meta) ==
  IF ~meta.scanned THEN <<"graph TD", "A-->B", "A-->B", "A-->B">>
  ELSE <<"graph TD", "A[Label]">> \o [i \in 1..meta.topDirs |-> "A-->B"]

\* generateFallbackArchitecture: a non-empty description in both branches
generateFallbackArchitecture(meta) ==
  IF ~meta.scanned THEN "Unable to analyze architecture." ELSE "fallback description"

(***************************************************************************)
(* Progress arithmetic of reportProgress / reportDetail                    *)
(***************************************************************************)
totalSteps == 9

\* Math.round(num / den) for non-negative operands
Round(num, den) == (2 * num + den) \div (2 * den)

baseProgress(n) == Round((n - 1) * 100, totalSteps)
midProgress(n)  == baseProgress(n) + Round(50, totalSteps)

stepProgress_failedAtBase(n, stepStatus) ==
  IF stepStatus = "completed" THEN Round(n * 100, totalSteps)
  ELSE IF stepStatus = "failed" THEN baseProgress(n) ELSE midProgress(n)

stepProgress(n, stepStatus) ==
  IF stepStatus = "completed" THEN Round(n * 100, totalSteps) ELSE midProgress(n)

CapProgress_none(p) == p

\* Math.min(stepProgress, 99)
CapProgress(p) == Min(p, 99)

ProgressInfo(n, id, st, det, p) ==
  [stepNumber |-> n, totalSteps |-> totalSteps, stepId |-> id, stepStatus |-> st,
   detail |-> det, progress |-> p]

reportProgress(rs, n, id, st, det) ==
  IF ~config.onProgress THEN rs
  ELSE Append(rs, ProgressInfo(n, id, st, det, CapProgress(stepProgress(n, st))))

reportDetail_asCompleted(rs, det) ==
  IF ~config.onProgress THEN rs
  ELSE IF steps = <<>> THEN rs
  ELSE Append(rs, ProgressInfo(currentStepNumber, steps[Len(steps)].id, "completed", det,
                               CapProgress(midProgress(currentStepNumber))))

reportDetail(rs, det) ==
  IF ~config.onProgress THEN rs
  ELSE IF steps = <<>> THEN rs
  ELSE Append(rs, ProgressInfo(currentStepNumber, steps[Len(steps)].id, "running", det,
                               CapProgress(midProgress(currentStepNumber))))

(***************************************************************************)
(* The pipeline: Orchestrator.run and executeStep                          *)
(***************************************************************************)
Variants == {"local", "cloud", "copilot"}

StepOrder_swapped ==
  <<"check-foundry", "scan-repo", "gen-architecture", "analyze-files", "gen-tasks",
    "gen-diagram", "compile-pack", "ms-learn-validate", "write-files">>

\* the ids of the executeStep calls of run(), in program order
StepOrder ==
  <<"check-foundry", "scan-repo", "analyze-files", "gen-architecture", "gen-tasks",
    "gen-diagram", "compile-pack", "ms-learn-validate", "write-files">>

NoMeta  == [scanned |-> FALSE, keyFiles |-> 0, topDirs |-> 0]
NoPack  == [compiled |-> FALSE, architecture |-> "", tasks |-> <<>>, diagram |-> <<>>,
            microsoftTechValidation |-> 0]
NoResult == [kind |-> "none", pack |-> NoPack, error |-> "none"]

\* texts the model may answer a task-batch request with: n well-formed headings
Headings(n) == [i \in 1..n |-> Heading]
BatchTexts  == {Headings(0), Headings(5), Headings(7), Headings(11)}

\* texts the model may answer the diagram request with
DiagramTexts ==
  { <<"prose", "fence", "graph TD", "A-->B", "prose", "fence">>,
    <<"prose", "A-->B">> }

\* LocalModelClient.isReady / CopilotSdkClient.isReady
isReady == isAvailable

\* this.localModel.isReady && !this.config.skipLocalModel
UseModel == isReady /\ ~config.skipLocalModel

\* What checkStatus leaves in isAvailable: set on success by every variant; reset on
\* failure by the cloud and Copilot variants, left as it was by the local one.
checkStatus(variant, ok, prev) ==
  IF ok THEN TRUE ELSE IF variant = "local" THEN prev ELSE FALSE

(***************************************************************************)
(* The state of each part before it is used.  A specification about one    *)
(* part leaves the others as constructed.                                  *)
(***************************************************************************)
\* how an operation on the client ended
Outcome(o, k, e, a) == [op |-> o, kind |-> k, error |-> e, at |-> a]
NoOutcome == Outcome("none", "none", "none", 0)

\* FoundryLocalStatus: available, and what models and activeModel hold: "none" for
\* [] / undefined, "configured" for [this.model] / this.model, "listed" for the ids
\* the endpoint listed
Status(a, ms, am) == [available |-> a, models |-> ms, activeModel |-> am]
NoStatus == Status(FALSE, "none", "none")

\* the users that may hold a provider client at the same time: two web generation
\* jobs (runGeneration), a GET /api/status request and a POST /api/test-model request
Users == {"job1", "job2", "status", "test"}

\* a client as its constructor leaves it, no operation called yet
OpIdle ==
  /\ client = FALSE
  /\ session = FALSE
  /\ endpoint = 0
  /\ cpc = "idle"
  /\ attempt = 0
  /\ events = <<>>
  /\ outcome = NoOutcome
  /\ everOk = FALSE
  /\ readyAtCall = FALSE
  /\ ops = 0
  /\ baseURL = 0
  /\ status = NoStatus

\* let defaultClient: LocalModelClient | null = null, nobody active
ShareIdle ==
  /\ defaultClient = 0
  /\ created = 0
  /\ holder = [u \in Users |-> 0]
  /\ mutated = <<>>

AliasIdle ==
  /\ apc = "idle"
  /\ alias = <<>>
  /\ cachedModels = <<>>
  /\ resolved = <<>>

MermaidIdle ==
  /\ mtext = <<>>
  /\ mpc = "idle"
  /\ mout = <<>>

\* let batch2: StarterTask[] = []
TaskIdle == batch2 = <<>>

\* the ids of stepDefinitions in handleGenerate
JobStepIds ==
  <<"clone-repo", "check-foundry", "scan-repo", "analyze-files", "gen-architecture",
    "gen-tasks", "gen-diagram", "compile-pack", "ms-learn-validate", "write-files">>

\* GenerationProgress; NoJob stands for a job id that jobs does not hold
GenerationProgress(st, p, n, ss, err) ==
  [status |-> st, progress |-> p, currentStepNumber |-> n, steps |-> ss, error |-> err]
NoJob == GenerationProgress("none", 0, 0, <<>>, "none")

JobIdle == job = NoJob /\ jpc = "none"

\* const modelLoadJobs = new Map(), no load requested yet
LoadIdle ==
  /\ modelLoadJobs = "none"
  /\ proc = <<>>
  /\ timer = <<>>
  /\ settled = <<>>
  /\ writes = <<>>
  /\ lreply = "none"

\* let currentJobId = null, no generation started from the page
PollIdle ==
  /\ currentJobId = "null"
  /\ pollpc = "idle"
  /\ aborted = FALSE
  /\ polls = 0
  /\ seenEnd = FALSE
  /\ pollsAfter = 0

ExtraIdle == TaskIdle /\ JobIdle /\ LoadIdle /\ PollIdle

ParseIdle ==
  /\ ptext = <<>>
  /\ ppc = "idle"
  /\ pout = <<>>

\* an Orchestrator on which run() has not been called
RunIdle ==
  /\ pc = "next"
  /\ currentStepNumber = 0
  /\ steps = <<>>
  /\ reports = <<>>
  /\ repoMetadata = NoMeta
  /\ fileIdx = 0
  /\ keyFileSummaries = <<>>
  /\ architectureOverview = ""
  /\ batch1 = <<>>
  /\ tasks = <<>>
  /\ diagram = <<>>
  /\ pack = NoPack
  /\ thrown = "none"
  /\ result = NoResult
  /\ inflight = 0
  /\ calls = 0
  /\ statusReady = FALSE
  /\ extChecks = 0

\* The constructor: getLocalModelClient hands out the module-level defaultClient, a
\* new one when an endpoint, model or cloud configuration is given and otherwise the
\* one left by earlier use; the Copilot variant builds its own client.
Init ==
  /\ config \in [variant : Variants, skipLocalModel : BOOLEAN, onProgress : BOOLEAN]
  /\ isAvailable \in (IF config.variant = "local" THEN BOOLEAN ELSE {FALSE})
  /\ pc = "next"
  /\ currentStepNumber = 0
  /\ steps = <<>>
  /\ reports = <<>>
  /\ repoMetadata = NoMeta
  /\ fileIdx = 0
  /\ keyFileSummaries = <<>>
  /\ architectureOverview = ""
  /\ batch1 = <<>>
  /\ tasks = <<>>
  /\ diagram = <<>>
  /\ pack = NoPack
  /\ thrown = "none"
  /\ result = NoResult
  /\ inflight = 0
  /\ calls = 0
  /\ statusReady = FALSE
  /\ extChecks = 0
  /\ ptext = <<>>
  /\ ppc = "idle"
  /\ pout = <<>>
  /\ OpIdle /\ ExtraIdle /\ ShareIdle /\ AliasIdle /\ MermaidIdle

PushStep_overwrite(ss, step) ==
  IF ss = <<>> THEN <<step>> ELSE [ss EXCEPT ![Len(ss)] = step]

\* this.steps.push(step)
PushStep(ss, step) == Append(ss, step)

SetLast(ss, st, err) == [ss EXCEPT ![Len(ss)].status = st, ![Len(ss)].error = err]

\* executeStep, up to the call of the action
ExecuteStepStart ==
  /\ pc = "next"
  /\ currentStepNumber < totalSteps
  /\ LET n  == currentStepNumber + 1
         id == StepOrder[n]
     IN /\ currentStepNumber' = n
        /\ steps' = PushStep(steps, [id |-> id, status |-> "running", error |-> "none"])
        /\ reports' = reportProgress(reports, n, id, "running", "none")
        /\ pc' = id
  /\ UNCHANGED <<config, repoMetadata, fileIdx, keyFileSummaries, architectureOverview,
                 batch1, tasks, diagram, pack, thrown, result>>
  /\ UNCHANGED <<clientVars, parseVars, otherVars>>

PcAfterCompleted_early(n) == IF n >= 7 THEN "finishing" ELSE "next"

\* where run() continues after executeStep returned
PcAfterCompleted(n) == IF n = totalSteps THEN "finishing" ELSE "next"

\* executeStep, the action returned
ExecuteStepCompleted ==
  /\ pc = "completing"
  /\ steps' = SetLast(steps, "completed", "none")
  /\ reports' = reportProgress(reports, currentStepNumber, steps[Len(steps)].id,
                               "completed", "none")
  /\ pc' = PcAfterCompleted(currentStepNumber)
  /\ batch2' = <<>>      \* the locals of the action are gone once it has returned
  /\ UNCHANGED <<config, currentStepNumber, repoMetadata, fileIdx, keyFileSummaries,
                 architectureOverview, batch1, tasks, diagram, pack, thrown, result>>
  /\ UNCHANGED <<clientVars, parseVars, opVars, shareVars, aliasVars, mermaidVars,
                 restVars>>

PcAfterFailed_swallow == "next"

\* throw error: run() ends with the step's error
PcAfterFailed == "raised"

\* executeStep, the action threw
ExecuteStepFailed ==
  /\ pc = "failing"
  /\ steps' = SetLast(steps, "failed", thrown)
  /\ reports' = reportProgress(reports, currentStepNumber, steps[Len(steps)].id,
                               "failed", thrown)
  /\ pc' = PcAfterFailed
  /\ result' = IF PcAfterFailed = "raised"
               THEN [kind |-> "error", pack |-> NoPack, error |-> thrown]
               ELSE result
  /\ UNCHANGED <<config, currentStepNumber, repoMetadata, fileIdx, keyFileSummaries,
                 architectureOverview, batch1, tasks, diagram, pack, thrown>>
  /\ UNCHANGED <<clientVars, parseVars, otherVars>>

\* Step 1: the status check; checkStatus catches every error of its requests
CheckFoundry ==
  /\ pc = "check-foundry"
  /\ \E ok \in BOOLEAN :
       /\ isAvailable' = checkStatus(config.variant, ok, isAvailable)
       /\ reports' =
            LET r1 == reportDetail(reports, "Connecting to inference endpoint...") IN
            IF ok THEN reportDetail(r1, "online")
            ELSE IF ~config.skipLocalModel THEN reportDetail(r1, "unavailable")
            ELSE r1
  /\ statusReady' = isAvailable'
  /\ pc' = "completing"
  /\ UNCHANGED <<config, currentStepNumber, steps, repoMetadata, fileIdx,
                 keyFileSummaries, architectureOverview, batch1, tasks, diagram, pack,
                 thrown, result>>
  /\ UNCHANGED <<inflight, calls, extChecks, parseVars, otherVars>>

\* Step 2: the repository scan, which may throw
ScanRepo ==
  /\ pc = "scan-repo"
  /\ \/ \E kf \in 0..MaxKeyFiles, td \in 0..MaxTopDirs :
          /\ repoMetadata' = [scanned |-> TRUE, keyFiles |-> kf, topDirs |-> td]
          /\ reports' = reportDetail(reportDetail(reports, "Reading file tree"), "Found")
          /\ pc' = "completing"
          /\ UNCHANGED thrown
     \/ /\ reports' = reportDetail(reports, "Reading file tree")
        /\ thrown' = "scan failed"
        /\ pc' = "failing"
        /\ UNCHANGED repoMetadata
  /\ UNCHANGED <<config, currentStepNumber, steps, fileIdx, keyFileSummaries,
                 architectureOverview, batch1, tasks, diagram, pack, result>>
  /\ UNCHANGED <<clientVars, parseVars, otherVars>>

\* keyFiles.slice(0, 10)
MaxFilesToProcess == 10
filesToProcess == Min(repoMetadata.keyFiles, MaxFilesToProcess)

\* Step 3, entry: the readiness test that selects the loop or the fallback
AnalyzeFiles ==
  /\ pc = "analyze-files"
  /\ IF UseModel
     THEN /\ fileIdx' = 0
          /\ keyFileSummaries' = <<>>
          /\ pc' = "file_loop"
     ELSE /\ keyFileSummaries' = [i \in 1..repoMetadata.keyFiles |-> "Key file in the project"]
          /\ pc' = "completing"
          /\ UNCHANGED fileIdx
  /\ UNCHANGED <<config, currentStepNumber, steps, reports, repoMetadata,
                 architectureOverview, batch1, tasks, diagram, pack, thrown, result>>
  /\ UNCHANGED <<clientVars, parseVars, otherVars>>

\* an error of one file that ends the step's action
catchFileError_rethrow == "failing"

\* catch (error) { log Skipped; reportDetail Skipped }: the for-loop goes on
catchFileError == "file_loop"

AfterIssue_noAwait(i) == [pc |-> "file_loop", fileIdx |-> i + 1]

\* await this.localModel.summarizeFile(...): the loop waits for the reply of file i
AfterIssue(i) == [pc |-> "summarize_wait", fileIdx |-> i]

\* Step 3, one iteration up to the inference request: the detail report, readFile and
\* the entry of complete(), which throws at once when the client is not available
SummarizeFile ==
  /\ pc = "file_loop"
  /\ fileIdx < filesToProcess
  /\ \E readOk \in BOOLEAN :
       LET r1 == reportDetail(reports, "Summarizing file") IN
       IF readOk /\ isAvailable
       THEN /\ reports' = r1
            /\ calls' = calls + 1
            /\ inflight' = inflight + 1
            /\ pc' = AfterIssue(fileIdx).pc
            /\ fileIdx' = AfterIssue(fileIdx).fileIdx
            /\ UNCHANGED keyFileSummaries
       ELSE /\ reports' = reportDetail(r1, "Skipped")
            /\ calls' = IF readOk THEN calls + 1 ELSE calls
            /\ keyFileSummaries' = Append(keyFileSummaries, "skipped")
            /\ fileIdx' = fileIdx + 1
            /\ pc' = catchFileError
            /\ UNCHANGED inflight
  /\ UNCHANGED <<config, currentStepNumber, steps, repoMetadata, architectureOverview,
                 batch1, tasks, diagram, pack, thrown, result>>
  /\ UNCHANGED <<isAvailable, statusReady, extChecks, parseVars, otherVars>>

\* Step 3, the reply of one summary request: kept, or skipped when complete() threw
SummarizeReturn ==
  /\ pc = "summarize_wait"
  /\ inflight' = inflight - 1
  /\ \E ok \in BOOLEAN :
       IF ok THEN /\ keyFileSummaries' = Append(keyFileSummaries, "summary")
                  /\ pc' = "file_loop"
                  /\ UNCHANGED reports
       ELSE /\ keyFileSummaries' = Append(keyFileSummaries, "skipped")
            /\ reports' = reportDetail(reports, "Skipped")
            /\ pc' = catchFileError
  /\ fileIdx' = fileIdx + 1
  /\ UNCHANGED <<config, currentStepNumber, steps, repoMetadata, architectureOverview,
                 batch1, tasks, diagram, pack, thrown, result>>
  /\ UNCHANGED <<isAvailable, calls, statusReady, extChecks, parseVars, otherVars>>

\* Step 3, the loop is over
AnalyzeFilesDone ==
  /\ pc = "file_loop"
  /\ fileIdx >= filesToProcess
  /\ pc' = "completing"
  /\ UNCHANGED <<config, currentStepNumber, steps, reports, repoMetadata, fileIdx,
                 keyFileSummaries, architectureOverview, batch1, tasks, diagram, pack,
                 thrown, result>>
  /\ UNCHANGED <<clientVars, parseVars, otherVars>>

\* Step 4, up to the inference request or the fallback
GenArchitecture ==
  /\ pc = "gen-architecture"
  /\ reports' = reportDetail(reports, "Building structure tree")
  /\ IF UseModel
     THEN /\ calls' = calls + 1
          /\ inflight' = inflight + 1
          /\ pc' = "architecture_wait"
          /\ UNCHANGED architectureOverview
     ELSE /\ architectureOverview' = generateFallbackArchitecture(repoMetadata)
          /\ pc' = "completing"
          /\ UNCHANGED <<calls, inflight>>
  /\ UNCHANGED <<config, currentStepNumber, steps, repoMetadata, fileIdx,
                 keyFileSummaries, batch1, tasks, diagram, pack, thrown, result>>
  /\ UNCHANGED <<isAvailable, statusReady, extChecks, parseVars, otherVars>>

\* Step 4, the reply: the summary text, or the error of complete()
ArchitectureReturn ==
  /\ pc = "architecture_wait"
  /\ inflight' = inflight - 1
  /\ \/ /\ architectureOverview' = "model summary"
        /\ pc' = "completing"
        /\ UNCHANGED thrown
     \/ /\ thrown' = "Connection error"
        /\ pc' = "failing"
        /\ UNCHANGED architectureOverview
  /\ UNCHANGED <<config, currentStepNumber, steps, reports, repoMetadata, fileIdx,
                 keyFileSummaries, batch1, tasks, diagram, pack, result>>
  /\ UNCHANGED <<isAvailable, calls, statusReady, extChecks, parseVars, otherVars>>

\* batch2.map((t, i) => ({ ...t, id: batch1.length + i + 1 }))
Renumber(ts, offset) == [i \in DOMAIN ts |-> [ts[i] EXCEPT !.id = offset + i]]

\* fallback.slice(fallback.length - needed), renumbered after the tasks present
Padding(have) ==
  LET fallback == generateFallbackTasks
      needed   == 10 - have
  IN [i \in 1..needed |-> [fallback[Len(fallback) - needed + i] EXCEPT !.id = have + i]]

FinalizeTasks_noTruncate(b1, b2) ==
  LET all    == b1 \o b2
      padded == IF Len(all) < 10 THEN all \o Padding(Len(all)) ELSE all
  IN Renumber(padded, 0)

\* [...batch1, ...batch2], padded below 10, then slice(0, 10) and renumbered
FinalizeTasks(b1, b2) ==
  LET all    == b1 \o b2
      padded == IF Len(all) < 10 THEN all \o Padding(Len(all)) ELSE all
  IN Renumber(SubSeq(padded, 1, Min(10, Len(padded))), 0)

\* Step 5, up to the first batch request or the fallback
GenTasks ==
  /\ pc = "gen-tasks"
  /\ IF UseModel
     THEN /\ reports' = reportDetail(reports, "Generating tasks batch 1/2")
          /\ calls' = calls + 1
          /\ inflight' = inflight + 1
          /\ pc' = "batch1_wait"
          /\ UNCHANGED tasks
     ELSE /\ tasks' = generateFallbackTasks
          /\ pc' = "completing"
          /\ UNCHANGED <<reports, calls, inflight>>
  /\ UNCHANGED <<config, currentStepNumber, steps, repoMetadata, fileIdx,
                 keyFileSummaries, architectureOverview, batch1, diagram, pack, thrown,
                 result>>
  /\ UNCHANGED <<isAvailable, statusReady, extChecks, parseVars, otherVars>>

\* Step 5, the reply of the first batch: parsed, or its error fails the step
Batch1Return ==
  /\ pc = "batch1_wait"
  /\ inflight' = inflight - 1
  /\ \/ \E text \in BatchTexts :
          /\ batch1' = parseTasksFromText(text)
          /\ pc' = "batch2"
          /\ UNCHANGED thrown
     \/ /\ thrown' = "Connection error"
        /\ pc' = "failing"
        /\ UNCHANGED batch1
  /\ UNCHANGED <<config, currentStepNumber, steps, reports, repoMetadata, fileIdx,
                 keyFileSummaries, architectureOverview, tasks, diagram, pack, result>>
  /\ UNCHANGED <<isAvailable, calls, statusReady, extChecks, parseVars, otherVars>>

\* an error of the second batch that ends the step's action
catchBatch2_rethrow == "failing"

\* catch { log 'Second task batch failed ...' }: the action goes on with batch2 = []
catchBatch2 == "completing"

\* Step 5, the second batch request, inside try: an error at the entry of complete()
\* is caught and leaves batch2 empty
Batch2Start ==
  /\ pc = "batch2"
  /\ reports' = reportDetail(reports, "Generating tasks batch 2/2")
  /\ calls' = calls + 1
  /\ IF isAvailable
     THEN /\ inflight' = inflight + 1
          /\ pc' = "batch2_wait"
          /\ UNCHANGED tasks
     ELSE /\ tasks' = FinalizeTasks(batch1, <<>>)
          /\ pc' = catchBatch2
          /\ UNCHANGED inflight
  /\ batch2' = <<>>
  /\ UNCHANGED <<config, currentStepNumber, steps, repoMetadata, fileIdx,
                 keyFileSummaries, architectureOverview, batch1, diagram, pack, thrown,
                 result>>
  /\ UNCHANGED <<isAvailable, statusReady, extChecks, parseVars, opVars, shareVars,
                 aliasVars, mermaidVars, restVars>>

\* Step 5, the reply of the second batch: parsed and renumbered, or caught
Batch2Return ==
  /\ pc = "batch2_wait"
  /\ inflight' = inflight - 1
  /\ \/ \E text \in BatchTexts :
          /\ batch2' = Renumber(parseTasksFromText(text), Len(batch1))
          /\ pc' = "completing"
     \/ /\ batch2' = <<>>
        /\ pc' = catchBatch2
  /\ tasks' = FinalizeTasks(batch1, batch2')
  /\ UNCHANGED <<config, currentStepNumber, steps, reports, repoMetadata, fileIdx,
                 keyFileSummaries, architectureOverview, batch1, diagram, pack, thrown,
                 result>>
  /\ UNCHANGED <<isAvailable, calls, statusReady, extChecks, parseVars, opVars, shareVars,
                 aliasVars, mermaidVars, restVars>>

\* Step 6, up to the inference request or the fallback
GenDiagram ==
  /\ pc = "gen-diagram"
  /\ IF UseModel
     THEN /\ reports' = reportDetail(reports, "Extracting components")
          /\ calls' = calls + 1
          /\ inflight' = inflight + 1
          /\ pc' = "diagram_wait"
          /\ UNCHANGED diagram
     ELSE /\ diagram' = generateFallbackDiagram(repoMetadata)
          /\ pc' = "completing"
          /\ UNCHANGED <<reports, calls, inflight>>
  /\ UNCHANGED <<config, currentStepNumber, steps, repoMetadata, fileIdx,
                 keyFileSummaries, architectureOverview, batch1, tasks, pack, thrown,
                 result>>
  /\ UNCHANGED <<isAvailable, statusReady, extChecks, parseVars, otherVars>>

\* Step 6, the reply: cleaned, or the error of complete()
DiagramReturn ==
  /\ pc = "diagram_wait"
  /\ inflight' = inflight - 1
  /\ \/ \E text \in DiagramTexts :
          /\ diagram' = cleanMermaidDiagram(text)
          /\ pc' = "completing"
          /\ UNCHANGED thrown
     \/ /\ thrown' = "Connection error"
        /\ pc' = "failing"
        /\ UNCHANGED diagram
  /\ UNCHANGED <<config, currentStepNumber, steps, reports, repoMetadata, fileIdx,
                 keyFileSummaries, architectureOverview, batch1, tasks, pack, result>>
  /\ UNCHANGED <<isAvailable, calls, statusReady, extChecks, parseVars, otherVars>>

\* compileOnboardingPack(architectureOverview, tasks, diagram, keyFileSummaries)
compileOnboardingPack(architecture, ts, dg) ==
  [compiled |-> TRUE, architecture |-> architecture, tasks |-> ts, diagram |-> dg,
   microsoftTechValidation |-> 0]

\* Step 7
CompilePack ==
  /\ pc = "compile-pack"
  /\ pack' = compileOnboardingPack(architectureOverview, tasks, diagram)
  /\ pc' = "completing"
  /\ UNCHANGED <<config, currentStepNumber, steps, reports, repoMetadata, fileIdx,
                 keyFileSummaries, architectureOverview, batch1, tasks, diagram, thrown,
                 result>>
  /\ UNCHANGED <<clientVars, parseVars, otherVars>>

\* Step 8: the detections (their number) are stored in the pack when there are any
MsLearnValidate ==
  /\ pc = "ms-learn-validate"
  /\ \E detections \in 0..1 :
       /\ pack' = IF detections > 0
                  THEN [pack EXCEPT !.microsoftTechValidation = detections]
                  ELSE pack
       /\ reports' = reportDetail(reportDetail(reports, "Scanning dependencies"),
                                  IF detections > 0 THEN "Found" ELSE "No Microsoft technologies")
  /\ pc' = "completing"
  /\ UNCHANGED <<config, currentStepNumber, steps, repoMetadata, fileIdx,
                 keyFileSummaries, architectureOverview, batch1, tasks, diagram, thrown,
                 result>>
  /\ UNCHANGED <<clientVars, parseVars, otherVars>>

\* Step 9: writing the files, which may throw
WriteFiles ==
  /\ pc = "write-files"
  /\ reports' = reportDetail(reports, "Writing")
  /\ \/ /\ pc' = "completing"
        /\ UNCHANGED thrown
     \/ /\ thrown' = "write failed"
        /\ pc' = "failing"
  /\ UNCHANGED <<config, currentStepNumber, steps, repoMetadata, fileIdx,
                 keyFileSummaries, architectureOverview, batch1, tasks, diagram, pack,
                 result>>
  /\ UNCHANGED <<clientVars, parseVars, otherVars>>

\* The end of run(): the Copilot client is disposed of, the pack is returned
RunReturn ==
  /\ pc = "finishing"
  /\ \/ /\ isAvailable' = IF config.variant = "copilot" THEN FALSE ELSE isAvailable
        /\ result' = [kind |-> "pack", pack |-> pack, error |-> "none"]
        /\ pc' = "returned"
     \/ \* await this.copilotSdkClient.dispose() rejects: run() raises its error
        /\ config.variant = "copilot"
        /\ result' = [kind |-> "error", pack |-> NoPack, error |-> "dispose failed"]
        /\ pc' = "dispose-raised"
        /\ UNCHANGED isAvailable
  /\ UNCHANGED <<config, currentStepNumber, steps, reports, repoMetadata, fileIdx,
                 keyFileSummaries, architectureOverview, batch1, tasks, diagram, pack,
                 thrown>>
  /\ UNCHANGED <<inflight, calls, statusReady, extChecks, parseVars, otherVars>>

RunActive == pc \notin {"returned", "raised", "dispose-raised"}

\* handleStatusCheck of the web server: getLocalModelClient() without arguments is the
\* defaultClient, the very client a local or cloud run obtained from
\* getLocalModelClient, and checkStatus is called on it while the run is suspended.
HandleStatusCheck ==
  /\ RunActive
  /\ config.variant \in {"local", "cloud"}
  /\ extChecks < MaxExtChecks
  /\ extChecks' = extChecks + 1
  /\ \E ok \in BOOLEAN : isAvailable' = checkStatus(config.variant, ok, isAvailable)
  /\ UNCHANGED <<runVars, inflight, calls, statusReady, parseVars, otherVars>>

Next ==
  \/ ExecuteStepStart \/ ExecuteStepCompleted \/ ExecuteStepFailed
  \/ CheckFoundry \/ ScanRepo
  \/ AnalyzeFiles \/ SummarizeFile \/ SummarizeReturn \/ AnalyzeFilesDone
  \/ GenArchitecture \/ ArchitectureReturn
  \/ GenTasks \/ Batch1Return \/ Batch2Start \/ Batch2Return
  \/ GenDiagram \/ DiagramReturn
  \/ CompilePack \/ MsLearnValidate \/ WriteFiles
  \/ RunReturn
  \/ HandleStatusCheck

Spec == Init /\ [][Next]_vars

(***************************************************************************)
(* The analyze-files step on its own, for repositories with more key files *)
(* than the step processes: the run as it stands when executeStep calls    *)
(* the action of step 3, then the step to its end.                         *)
(***************************************************************************)
MaxLoopFiles == 11   \* key files of the repository

\* the reports delivered by steps 1 and 2 and by the start of step 3
ReportsBeforeAnalyze(on, ok, skip) ==
  LET R(n, st, det) ==
        ProgressInfo(n, StepOrder[n], st, det, CapProgress(stepProgress(n, st)))
      D(n, det) ==
        ProgressInfo(n, StepOrder[n], "running", det, CapProgress(midProgress(n)))
  IN IF ~on THEN <<>>
     ELSE <<R(1, "running", "none"), D(1, "Connecting to inference endpoint...")>>
          \o (IF ok THEN <<D(1, "online")>>
              ELSE IF ~skip THEN <<D(1, "unavailable")>> ELSE <<>>)
          \o <<R(1, "completed", "none"), R(2, "running", "none"),
               D(2, "Reading file tree"), D(2, "Found"), R(2, "completed", "none"),
               R(3, "running", "none")>>

InitAnalyze ==
  /\ config \in [variant : Variants, skipLocalModel : BOOLEAN, onProgress : BOOLEAN]
  /\ isAvailable \in BOOLEAN
  /\ statusReady = isAvailable
  /\ pc = "analyze-files"
  /\ currentStepNumber = 3
  /\ steps = [n \in 1..3 |-> [id |-> StepOrder[n],
                               status |-> IF n < 3 THEN "completed" ELSE "running",
                               error |-> "none"]]
  /\ reports = ReportsBeforeAnalyze(config.onProgress, isAvailable, config.skipLocalModel)
  /\ repoMetadata \in [scanned : {TRUE}, keyFiles : 0..MaxLoopFiles, topDirs : {0}]
  /\ fileIdx = 0
  /\ keyFileSummaries = <<>>
  /\ architectureOverview = ""
  /\ batch1 = <<>>
  /\ tasks = <<>>
  /\ diagram = <<>>
  /\ pack = NoPack
  /\ thrown = "none"
  /\ result = NoResult
  /\ inflight = 0
  /\ calls = 0
  /\ extChecks = 0
  /\ ParseIdle /\ OpIdle /\ ExtraIdle /\ ShareIdle /\ AliasIdle /\ MermaidIdle

NextAnalyze ==
  \/ AnalyzeFiles \/ SummarizeFile \/ SummarizeReturn \/ AnalyzeFilesDone
  \/ ExecuteStepCompleted

SpecAnalyze == InitAnalyze /\ [][NextAnalyze]_vars

(***************************************************************************)
(* One web generation job: handleGenerate creates it, runGeneration drives *)
(* it through the clone, the run of an Orchestrator whose onProgress       *)
(* callback writes into the job, and the final statements.  The callback   *)
(* runs inside reportProgress / reportDetail, so while the run is going    *)
(* on the job is what runGeneration wrote with every report applied to it. *)
(***************************************************************************)
\* index of the last report of rs for step id, 0 if there is none
RECURSIVE LastReportBefore(_, _, _)
LastReportBefore(rs, id, k) ==
  IF k = 0 THEN 0
  ELSE IF rs[k].stepId = id THEN k ELSE LastReportBefore(rs, id, k - 1)
LastReportFor(rs, id) == LastReportBefore(rs, id, Len(rs))

\* a callback that also copies the step's status into the job's status
onProgress_setsStatus(j, rs) ==
  IF rs = <<>> THEN j
  ELSE [j EXCEPT !.status = rs[Len(rs)].stepStatus,
                 !.progress = rs[Len(rs)].progress,
                 !.currentStepNumber = rs[Len(rs)].stepNumber]

\* config.onProgress of runGeneration, called for every report of rs in order: it
\* overwrites progress and currentStepNumber, and the stepStatus of the entry with
\* the report's stepId, so each holds what the last report that wrote it gave
onProgress(j, rs) ==
  IF rs = <<>> THEN j
  ELSE [j EXCEPT !.progress = rs[Len(rs)].progress,
                 !.currentStepNumber = rs[Len(rs)].stepNumber,
                 !.steps = [i \in DOMAIN j.steps |->
                             LET k == LastReportFor(rs, j.steps[i].stepId)
                             IN IF k = 0 THEN j.steps[i]
                                ELSE [j.steps[i] EXCEPT !.stepStatus = rs[k].stepStatus]]]

\* the job as a GET /api/job request finds it
JobView == IF jpc = "run" THEN onProgress(job, reports) ELSE job

SetStep(j, id, st) ==
  [j EXCEPT !.steps = [i \in DOMAIN j.steps |->
                        IF j.steps[i].stepId = id
                        THEN [j.steps[i] EXCEPT !.stepStatus = st] ELSE j.steps[i]]]

\* the statements of runGeneration after orchestrator.run() has returned
CompleteJob(j) ==
  [j EXCEPT !.progress = 100,
            !.status = "completed",
            !.steps = [i \in DOMAIN j.steps |->
                        IF j.steps[i].stepStatus \in {"pending", "running"}
                        THEN [j.steps[i] EXCEPT !.stepStatus = "completed"]
                        ELSE j.steps[i]]]

\* catch (error) of runGeneration
FailJob(j, err) == [j EXCEPT !.status = "failed", !.error = err]

\* a web job uses the local or the cloud provider (runGeneration passes no
\* useCopilotSdk) and always passes onProgress
InitJob ==
  /\ config \in [variant : {"local", "cloud"}, skipLocalModel : BOOLEAN, onProgress : {TRUE}]
  /\ isAvailable \in (IF config.variant = "local" THEN BOOLEAN ELSE {FALSE})
  /\ pc = "unconstructed"
  /\ currentStepNumber = 0
  /\ steps = <<>>
  /\ reports = <<>>
  /\ repoMetadata = NoMeta
  /\ fileIdx = 0
  /\ keyFileSummaries = <<>>
  /\ architectureOverview = ""
  /\ batch1 = <<>>
  /\ tasks = <<>>
  /\ diagram = <<>>
  /\ pack = NoPack
  /\ thrown = "none"
  /\ result = NoResult
  /\ inflight = 0
  /\ calls = 0
  /\ statusReady = FALSE
  /\ extChecks = 0
  /\ ParseIdle /\ OpIdle /\ ExtraIdle /\ ShareIdle /\ AliasIdle /\ MermaidIdle

JobUnchanged ==
  UNCHANGED <<runVars, clientVars, parseVars, taskVars, opVars, shareVars, aliasVars,
              mermaidVars, loadVars, pollVars>>

\* handleGenerate: the job is stored with status pending
HandleGenerate ==
  /\ jpc = "none"
  /\ job' = GenerationProgress("pending", 0, 0,
               [i \in 1..Len(JobStepIds) |->
                  [stepId |-> JobStepIds[i], stepStatus |-> "pending"]],
               "none")
  /\ jpc' = "created"
  /\ JobUnchanged

\* runGeneration up to its first await: the clone of a GitHub URL, or mkdir
RunGenerationStart ==
  /\ jpc = "created"
  /\ \E github \in BOOLEAN :
       LET running == [job EXCEPT !.status = "running", !.progress = 2] IN
       IF github
         THEN /\ job' = [SetStep(running, "clone-repo", "running")
                           EXCEPT !.currentStepNumber = 1]
              /\ jpc' = "clone"
         ELSE /\ job' = SetStep(running, "clone-repo", "completed")
              /\ jpc' = "mkdir"
  /\ JobUnchanged

\* the clone: done, git clone exits non-zero, or another statement throws
CloneReturn ==
  /\ jpc = "clone"
  /\ \/ /\ job' = SetStep(job, "clone-repo", "completed")
        /\ jpc' = "mkdir"
     \/ /\ job' = FailJob(SetStep(job, "clone-repo", "failed"), "Failed to clone")
        /\ jpc' = "done"
     \/ /\ job' = FailJob(job, "Invalid GitHub URL")
        /\ jpc' = "done"
  /\ JobUnchanged

\* await mkdir(outputDir) settles; new Orchestrator(config) and the call of run()
MkdirReturn ==
  /\ jpc = "mkdir"
  /\ \/ /\ pc' = "next"
        /\ jpc' = "run"
        /\ UNCHANGED job
     \/ /\ job' = FailJob(job, "mkdir error")
        /\ jpc' = "done"
        /\ UNCHANGED pc
  /\ UNCHANGED <<config, currentStepNumber, steps, reports, repoMetadata, fileIdx,
                 keyFileSummaries, architectureOverview, batch1, tasks, diagram, pack,
                 thrown, result>>
  /\ UNCHANGED <<clientVars, parseVars, taskVars, opVars, shareVars, aliasVars,
                 mermaidVars, loadVars, pollVars>>

\* await orchestrator.run() settles: the final statements, or the catch
RunGenerationEnd ==
  /\ jpc = "run"
  /\ pc \in {"returned", "raised"}
  /\ job' = IF pc = "returned" THEN CompleteJob(JobView)
            ELSE FailJob(JobView, result.error)
  /\ jpc' = "done"
  /\ JobUnchanged

NextJob ==
  \/ HandleGenerate \/ RunGenerationStart \/ CloneReturn \/ MkdirReturn
  \/ RunGenerationEnd
  \/ ExecuteStepStart \/ ExecuteStepCompleted \/ ExecuteStepFailed
  \/ CheckFoundry \/ ScanRepo
  \/ AnalyzeFiles \/ SummarizeFile \/ SummarizeReturn \/ AnalyzeFilesDone
  \/ GenArchitecture \/ ArchitectureReturn
  \/ GenTasks \/ Batch1Return \/ Batch2Start \/ Batch2Return
  \/ GenDiagram \/ DiagramReturn
  \/ CompilePack \/ MsLearnValidate \/ WriteFiles
  \/ RunReturn

SpecJob == InitJob /\ [][NextJob]_vars

(***************************************************************************)
(* Loads of one model: handleLoadModel accepts a request unless the entry  *)
(* says loading, loadModelAsync spawns the foundry process and starts a    *)
(* 10-minute timer.  The process events and the timer of every accepted    *)
(* load write into the one entry modelLoadJobs keeps for the model.        *)
(***************************************************************************)
MaxLoads == 2    \* load requests accepted for the model

InitLoad ==
  /\ config = [variant |-> "local", skipLocalModel |-> FALSE, onProgress |-> FALSE]
  /\ isAvailable = FALSE
  /\ RunIdle /\ ParseIdle /\ OpIdle /\ ExtraIdle /\ ShareIdle /\ AliasIdle /\ MermaidIdle

LoadUnchanged ==
  UNCHANGED <<runVars, clientVars, parseVars, taskVars, jobVars, pollVars, opVars,
              shareVars, aliasVars, mermaidVars>>

\* modelLoadJobs.set(modelName, { status }) by an event of load n; the .catch in
\* handleLoadModel writes failed once more when the event rejects the promise first
SetStatus(st, n, rejects) ==
  /\ modelLoadJobs' = st
  /\ writes' = IF rejects /\ ~settled[n]
                 THEN writes \o <<[status |-> st, by |-> n], [status |-> "failed", by |-> n]>>
               ELSE Append(writes, [status |-> st, by |-> n])
  /\ settled' = [settled EXCEPT ![n] = TRUE]

\* handleLoadModel with loadModelAsync up to the spawn and setTimeout
HandleLoadModel ==
  /\ \/ /\ modelLoadJobs = "loading"
        /\ lreply' = "already loading"
        /\ UNCHANGED <<modelLoadJobs, proc, timer, settled, writes>>
     \/ /\ modelLoadJobs # "loading"
        /\ Len(proc) < MaxLoads
        /\ modelLoadJobs' = "loading"
        /\ writes' = Append(writes, [status |-> "loading", by |-> Len(proc) + 1])
        /\ proc' = Append(proc, "running")
        /\ timer' = Append(timer, TRUE)
        /\ settled' = Append(settled, FALSE)
        /\ lreply' = "accepted"
  /\ LoadUnchanged

\* proc.on('close'): exit code 0 (only a process neither killed nor failed to
\* spawn), or any other code
ProcClose ==
  /\ \E n \in DOMAIN proc, ok \in BOOLEAN :
       /\ proc[n] \in {"running", "killed", "errored"}
       /\ ok => proc[n] = "running"
       /\ proc' = [proc EXCEPT ![n] = "closed"]
       /\ SetStatus(IF ok THEN "completed" ELSE "failed", n, ~ok)
  /\ UNCHANGED <<timer, lreply>>     \* the timer of the load stays pending
  /\ LoadUnchanged

\* proc.on('error'): the process could not be spawned
ProcError ==
  /\ \E n \in DOMAIN proc :
       /\ proc[n] = "running"
       /\ proc' = [proc EXCEPT ![n] = "errored"]
       /\ SetStatus("failed", n, TRUE)
  /\ UNCHANGED <<timer, lreply>>
  /\ LoadUnchanged

\* the setTimeout callback: proc.kill(), failed, reject
Timeout ==
  /\ \E n \in DOMAIN timer :
       /\ timer[n]
       /\ timer' = [timer EXCEPT ![n] = FALSE]
       /\ proc' = [proc EXCEPT ![n] = IF proc[n] = "running" THEN "killed" ELSE proc[n]]
       /\ SetStatus("failed", n, TRUE)
  /\ UNCHANGED lreply
  /\ LoadUnchanged

NextLoad == HandleLoadModel \/ ProcClose \/ ProcError \/ Timeout

SpecLoad == InitLoad /\ [][NextLoad]_vars

(***************************************************************************)
(* The web page polling one generation job: the click handler of the       *)
(* generate button, pollJobStatus and the cancel button, with the job on   *)
(* the server ending on its own.                                           *)
(***************************************************************************)
MaxPolls == 3    \* GET /api/job requests of one pollJobStatus call

\* str.includes(sub)
messageIncludes(str, sub) ==
  \E i \in 1..(Len(str) - Len(sub) + 1) : SubSeq(str, i, i + Len(sub) - 1) = sub

\* error messages a failed job may carry: of the clone (server.ts 563), of the scan
\* (orchestrator.ts 170), of the OpenAI client on a refused connection, of complete
\* (part_000 1007), or an empty message
JobErrors ==
  {"Failed to clone: fatal: repository not found", "Failed to scan repository",
   "Connection error.", "Foundry Local request failed after retries", ""}

\* messages of a rejected fetch in different browsers
FetchErrors == {"Failed to fetch", "Load failed"}

\* if (error.message.includes('failed')) throw error
Rethrown(message) == messageIncludes(message, "failed")

InitPoll ==
  /\ config = [variant |-> "local", skipLocalModel |-> FALSE, onProgress |-> TRUE]
  /\ isAvailable = FALSE
  /\ RunIdle /\ ParseIdle /\ OpIdle /\ ExtraIdle /\ ShareIdle /\ AliasIdle /\ MermaidIdle

PollUnchanged ==
  UNCHANGED <<runVars, clientVars, parseVars, taskVars, loadVars, opVars, shareVars,
              aliasVars, mermaidVars>>

\* the click handler of the generate button up to the first timer of pollJobStatus;
\* on the server handleGenerate has stored the job and runGeneration has started
GenerateClick ==
  /\ pollpc = "idle"
  /\ jpc = "none"
  /\ job' = GenerationProgress("running", 2, 0,
               [i \in 1..Len(JobStepIds) |->
                  [stepId |-> JobStepIds[i], stepStatus |-> "pending"]],
               "none")
  /\ jpc' = "run"
  /\ currentJobId' = "job"
  /\ aborted' = FALSE       \* pollAbort = new AbortController()
  /\ pollpc' = "wait"
  /\ UNCHANGED <<polls, seenEnd, pollsAfter>>
  /\ PollUnchanged

\* runGeneration ends on the server, whatever the page does
ServerJobEnds ==
  /\ jpc = "run"
  /\ \/ job' = CompleteJob(job)
     \/ \E e \in JobErrors : job' = FailJob(job, e)
  /\ jpc' = "done"
  /\ UNCHANGED pollVars
  /\ PollUnchanged

\* the 500 ms timer of the loop fires: break, or the next GET /api/job
PollWake ==
  /\ pollpc = "wait"
  /\ IF currentJobId # "job"
       THEN /\ pollpc' = "returned"
            /\ UNCHANGED <<polls, pollsAfter>>
       ELSE /\ polls < MaxPolls
            /\ polls' = polls + 1
            /\ pollsAfter' = IF seenEnd THEN pollsAfter + 1 ELSE pollsAfter
            /\ pollpc' = "fetch"
  /\ UNCHANGED <<currentJobId, aborted, seenEnd>>
  /\ UNCHANGED jobVars
  /\ PollUnchanged

\* the loop after a swallowed error or a reply of a running job: while (currentJobId === jobId)
LoopAgain == IF currentJobId = "job" THEN "wait" ELSE "returned"

\* the fetch of the loop settles
PollReply ==
  /\ pollpc = "fetch"
  /\ IF aborted
       THEN \* AbortError: break
            /\ pollpc' = "returned"
            /\ UNCHANGED <<currentJobId, seenEnd>>
       ELSE \/ \E m \in FetchErrors :
                 \* the request was rejected: caught
                 /\ pollpc' = IF Rethrown(m) THEN "raised" ELSE LoopAgain
                 /\ currentJobId' = IF Rethrown(m) THEN "null" ELSE currentJobId
                 /\ UNCHANGED seenEnd
            \/ /\ job.status = "running"
               /\ pollpc' = LoopAgain
               /\ UNCHANGED <<currentJobId, seenEnd>>
            \/ /\ job.status = "completed"      \* break, then finally of the click handler
               /\ pollpc' = "returned"
               /\ currentJobId' = "null"
               /\ seenEnd' = TRUE
            \/ /\ job.status = "failed"
               \* throw new Error(job.error || 'Generation failed'), inside the try
               /\ LET message == IF job.error = "" THEN "Generation failed" ELSE job.error
                  IN /\ pollpc' = IF Rethrown(message) THEN "raised" ELSE LoopAgain
                     /\ currentJobId' = IF Rethrown(message) THEN "null" ELSE currentJobId
               /\ seenEnd' = TRUE
  /\ UNCHANGED <<aborted, polls, pollsAfter>>
  /\ UNCHANGED jobVars
  /\ PollUnchanged

\* the click handler of the cancel button
Cancel ==
  /\ pollpc \in {"wait", "fetch"}
  /\ ~aborted
  /\ aborted' = TRUE
  /\ currentJobId' = "null"
  /\ seenEnd' = TRUE
  /\ UNCHANGED <<pollpc, polls, pollsAfter>>
  /\ UNCHANGED jobVars
  /\ PollUnchanged

NextPoll == GenerateClick \/ ServerJobEnds \/ PollWake \/ PollReply \/ Cancel

SpecPoll == InitPoll /\ [][NextPoll]_vars

(***************************************************************************)
(* Harness for parseTasksFromText: a text is assembled line by line, then  *)
(* parsed.  The run's variables stay as constructed.                       *)
(***************************************************************************)
NoiseCount(text) == Cardinality({i \in DOMAIN text : text[i] # Heading})

InitParse ==
  /\ config = [variant |-> "local", skipLocalModel |-> FALSE, onProgress |-> FALSE]
  /\ isAvailable = FALSE
  /\ pc = "next"
  /\ currentStepNumber = 0
  /\ steps = <<>>
  /\ reports = <<>>
  /\ repoMetadata = NoMeta
  /\ fileIdx = 0
  /\ keyFileSummaries = <<>>
  /\ architectureOverview = ""
  /\ batch1 = <<>>
  /\ tasks = <<>>
  /\ diagram = <<>>
  /\ pack = NoPack
  /\ thrown = "none"
  /\ result = NoResult
  /\ inflight = 0
  /\ calls = 0
  /\ statusReady = FALSE
  /\ extChecks = 0
  /\ ptext = <<>>
  /\ ppc = "input"
  /\ pout = <<>>
  /\ OpIdle /\ ExtraIdle /\ ShareIdle /\ AliasIdle /\ MermaidIdle

\* one more line of model output
AppendLine(l) ==
  /\ ppc = "input"
  /\ Len(ptext) < MaxLines
  /\ NoiseCount(Append(ptext, l)) <= MaxNoise
  /\ ptext' = Append(ptext, l)
  /\ UNCHANGED <<ppc, pout, runVars, clientVars, otherVars>>

\* const batch = this.parseTasksFromText(text)
ParseTasks ==
  /\ ppc = "input"
  /\ pout' = parseTasksFromText(ptext)
  /\ ppc' = "parsed"
  /\ UNCHANGED <<ptext, runVars, clientVars, otherVars>>

NextParse == (\E l \in TextLines : AppendLine(l)) \/ ParseTasks

SpecParse == InitParse /\ [][NextParse]_vars

(***************************************************************************)
(* One provider client and the operations called on it, one at a time:     *)
(* LocalModelClient.checkStatus and complete (local and cloud mode) and    *)
(* CopilotSdkClient.checkStatus, complete and dispose.  Every await of an  *)
(* operation is a position of cpc; events lists what the operation did.    *)
(***************************************************************************)
MaxOps   == 3    \* operations called on the client
MaxPorts == 1    \* times re-discovery finds the service on another endpoint

\* one retry fewer than the code allows
maxRetries_one == 2 - 1

\* const maxRetries = 2
maxRetries == 2

ShouldRetry_any(isConnectionError, a) == a < maxRetries

\* isConnectionError && attempt < maxRetries
ShouldRetry(isConnectionError, a) == isConnectionError /\ a < maxRetries

\* what discoverFoundryEndpoint may hand back: nothing new, or another endpoint
Discovered == {endpoint} \cup (IF endpoint < MaxPorts THEN {endpoint + 1} ELSE {})

\* outcomes of a fetch: answered 2xx, answered otherwise, or rejected / timed out
FetchResults == {"ok", "notOk", "throws"}
\* outcomes of chat.completions.create: a completion, a connection-class error
\* ('Connection error', 'ECONNREFUSED', 'fetch failed'), any other error
RequestResults == {"ok", "connection", "other"}

\* initClient(): this.client = new OpenAI({ baseURL: this.endpoint + "/v1", ... }),
\* e being this.endpoint at the time of the call
initClient(e) ==
  /\ client' = TRUE
  /\ baseURL' = e

InitClient ==
  /\ config \in [variant : Variants, skipLocalModel : {FALSE}, onProgress : {FALSE}]
  /\ isAvailable = FALSE
  /\ RunIdle /\ ParseIdle /\ OpIdle /\ ExtraIdle /\ ShareIdle /\ AliasIdle /\ MermaidIdle

\* return { available: true, ... } of checkStatus
ReturnAvailable(ev, st) ==
  /\ outcome' = Outcome("checkStatus", "available", "none", attempt)
  /\ status' = st
  /\ everOk' = TRUE
  /\ events' = ev
  /\ cpc' = "idle"

\* return { available: false, ... } of checkStatus
ReturnUnavailable(ev) ==
  /\ outcome' = Outcome("checkStatus", "unavailable", "none", attempt)
  /\ status' = NoStatus
  /\ events' = ev
  /\ cpc' = "idle"
  /\ UNCHANGED everOk

\* checkStatus up to its first await
CheckStatusCall ==
  /\ cpc = "idle"
  /\ ops < MaxOps
  /\ ops' = ops + 1
  /\ attempt' = 0
  /\ outcome' = NoOutcome
  /\ IF config.variant = "cloud"
       THEN /\ initClient(endpoint)      \* this.initClient()
            /\ isAvailable' = TRUE       \* this.isAvailable = true, before the fetch
            /\ events' = <<"models">>
            /\ cpc' = "cloud-fetch"
     ELSE IF config.variant = "copilot"
       THEN /\ client' = TRUE            \* this.client = new CopilotClient(...)
            /\ events' = <<"start">>
            /\ cpc' = "start"
            /\ UNCHANGED <<isAvailable, baseURL>>
     ELSE   /\ events' = <<"list">>      \* fetch(`${endpoint}/v1/models`)
            /\ cpc' = "list"
            /\ UNCHANGED <<client, isAvailable, baseURL>>
  /\ UNCHANGED <<session, endpoint, everOk, readyAtCall, status>>
  /\ UNCHANGED <<config, runVars, inflight, calls, statusReady, extChecks, parseVars, extraVars,
                 shareVars, aliasVars, mermaidVars>>

\* a cloud listing that answered without throwing was treated as a failed check
cloudStatus_needsListing(r, hasData) ==
  IF r = "ok" THEN Status(TRUE, IF hasData THEN "listed" ELSE "configured", "configured")
  ELSE NoStatus

\* cloud mode, what checkStatus returns when the fetch did not throw: the listed ids
\* (data.data?.map(...) || [this.model]) when response.ok, [this.model] otherwise
cloudStatus(r, hasData) ==
  Status(TRUE, IF r = "ok" /\ hasData THEN "listed" ELSE "configured", "configured")

\* cloud mode: the models request settles
CloudFetchReturn ==
  /\ cpc = "cloud-fetch"
  /\ \E r \in FetchResults, hasData \in BOOLEAN :
       IF r = "throws"
         THEN isAvailable' = FALSE /\ ReturnUnavailable(Append(events, r))
         ELSE UNCHANGED isAvailable
              /\ ReturnAvailable(Append(events, r), cloudStatus(r, hasData))
  /\ UNCHANGED <<client, session, endpoint, attempt, readyAtCall, ops, baseURL>>
  /\ UNCHANGED <<config, runVars, inflight, calls, statusReady, extChecks, parseVars, extraVars,
                 shareVars, aliasVars, mermaidVars>>

\* Copilot: client.start() settles
CopilotStartReturn ==
  /\ cpc = "start"
  /\ \E ok \in BOOLEAN :
       IF ok THEN /\ isAvailable' = TRUE
                  /\ ReturnAvailable(Append(events, "ok"),
                                     Status(TRUE, "configured", "configured"))
       ELSE isAvailable' = FALSE /\ ReturnUnavailable(Append(events, "throws"))
  /\ UNCHANGED <<client, session, endpoint, attempt, readyAtCall, ops, baseURL>>
  /\ UNCHANGED <<config, runVars, inflight, calls, statusReady, extChecks, parseVars, extraVars,
                 shareVars, aliasVars, mermaidVars>>

\* local mode: the models-listing request of the for-loop settles
ListReturn ==
  /\ cpc = "list"
  /\ \E r \in FetchResults, d \in Discovered :
       LET ev1 == Append(events, r)
           ev2 == IF attempt = 0 THEN Append(ev1, "discover") ELSE ev1
       IN
       IF r = "ok"
         THEN \* this.isAvailable = true; this.initClient()
              /\ UNCHANGED <<endpoint, attempt>>
              /\ isAvailable' = TRUE /\ initClient(endpoint)
              /\ ReturnAvailable(ev1, Status(TRUE, "listed", "configured"))
       ELSE IF attempt = 0 /\ d # endpoint
         THEN \* this.endpoint = discovered; continue
              /\ endpoint' = d /\ attempt' = 1
              /\ events' = Append(ev2, "list")
              /\ UNCHANGED <<cpc, outcome, everOk, isAvailable, client, baseURL, status>>
       ELSE IF r = "notOk"
         THEN \* return { available: false, ... } of the !response.ok branch
              /\ ReturnUnavailable(ev2)
              /\ UNCHANGED <<endpoint, attempt, isAvailable, client, baseURL>>
       ELSE   \* catch: fetch(`${endpoint}/openai/status`)
              /\ events' = Append(ev2, "probe")
              /\ cpc' = "probe"
              /\ UNCHANGED <<endpoint, attempt, outcome, everOk, isAvailable, client,
                             baseURL, status>>
  /\ UNCHANGED <<session, readyAtCall, ops>>
  /\ UNCHANGED <<config, runVars, inflight, calls, statusReady, extChecks, parseVars, extraVars,
                 shareVars, aliasVars, mermaidVars>>

\* local mode: the request to the alternative status endpoint settles
ProbeReturn ==
  /\ cpc = "probe"
  /\ \E r \in FetchResults :
       LET ev1 == Append(events, r) IN
       IF r = "ok"
         THEN /\ isAvailable' = TRUE /\ initClient(endpoint)
              /\ ReturnAvailable(ev1, Status(TRUE, "configured", "configured"))
              /\ UNCHANGED attempt
       ELSE IF attempt + 1 < 2
         THEN \* the catch block ends, the loop goes on with attempt 1
              /\ attempt' = attempt + 1
              /\ events' = Append(ev1, "list")
              /\ cpc' = "list"
              /\ UNCHANGED <<outcome, everOk, isAvailable, client, baseURL, status>>
       ELSE   \* the loop is over: return { available: false, ... }
              /\ ReturnUnavailable(ev1)
              /\ UNCHANGED <<attempt, isAvailable, client, baseURL>>
  /\ UNCHANGED <<session, endpoint, readyAtCall, ops>>
  /\ UNCHANGED <<config, runVars, inflight, calls, statusReady, extChecks, parseVars, extraVars,
                 shareVars, aliasVars, mermaidVars>>

\* throw of complete()
Raise(e, ev) ==
  /\ outcome' = Outcome("complete", "raised", e, attempt)
  /\ events' = ev
  /\ cpc' = "idle"

\* a guard that looks at the started client instead of the flag
notAvailable_noClient == ~client

\* CopilotSdkClient.complete: if (!this.available) throw ...
notAvailable == ~isAvailable

\* complete() up to its first await
CompleteCall ==
  /\ cpc = "idle"
  /\ ops < MaxOps
  /\ ops' = ops + 1
  /\ readyAtCall' = isAvailable
  /\ attempt' = 0
  /\ IF config.variant = "copilot"
       THEN IF notAvailable THEN outcome' = Outcome("complete", "raised", "unavailable", 0)
                                 /\ events' = <<>> /\ cpc' = "idle"
            ELSE IF ~client THEN outcome' = Outcome("complete", "raised", "other", 0)
                                 /\ events' = <<>> /\ cpc' = "idle"
            ELSE IF session THEN outcome' = NoOutcome
                                 /\ events' = <<"attempt">> /\ cpc' = "send"
            ELSE outcome' = NoOutcome /\ events' = <<"createSession">>
                 /\ cpc' = "createSession"
     ELSE   IF ~isAvailable \/ ~client
              THEN outcome' = Outcome("complete", "raised", "unavailable", 0)
                   /\ events' = <<>> /\ cpc' = "idle"
            ELSE outcome' = NoOutcome /\ events' = <<"attempt">> /\ cpc' = "request"
  /\ UNCHANGED <<client, session, endpoint, everOk, baseURL, status>>
  /\ UNCHANGED <<config, runVars, clientVars, parseVars, extraVars, shareVars, aliasVars,
                 mermaidVars>>

\* local and cloud mode: chat.completions.create settles
CompleteAttemptReturn ==
  /\ cpc = "request"
  /\ \E r \in RequestResults :
       LET ev == Append(events, r) IN
       IF r = "ok"
         THEN /\ outcome' = Outcome("complete", "response", "none", attempt)
              /\ events' = ev
              /\ cpc' = "idle"
       ELSE IF ShouldRetry(r = "connection", attempt)
         THEN \* await new Promise(r => setTimeout(r, 5000))
              /\ events' = ev
              /\ cpc' = "backoff"
              /\ UNCHANGED outcome
       ELSE Raise(r, ev)
  /\ UNCHANGED <<client, session, endpoint, attempt, everOk, readyAtCall, ops, baseURL,
                 status>>
  /\ UNCHANGED <<config, runVars, clientVars, parseVars, extraVars, shareVars, aliasVars,
                 mermaidVars>>

\* the 5 s timer fires; local mode re-discovers the endpoint; next attempt is sent
BackoffDone ==
  /\ cpc = "backoff"
  /\ \E d \in (IF config.variant = "local" THEN Discovered ELSE {endpoint}) :
       \* if (newEndpoint && newEndpoint !== this.endpoint) { ...; this.initClient() }
       /\ endpoint' = d
       /\ IF d # endpoint THEN initClient(d) ELSE UNCHANGED <<client, baseURL>>
       /\ events' = (IF config.variant = "local"
                       THEN events \o <<"wait", "discover", "attempt">>
                       ELSE events \o <<"wait", "attempt">>)
  /\ attempt' = attempt + 1
  /\ cpc' = "request"
  /\ UNCHANGED <<session, outcome, everOk, readyAtCall, ops, status>>
  /\ UNCHANGED <<config, runVars, clientVars, parseVars, extraVars, shareVars, aliasVars,
                 mermaidVars>>

\* Copilot: getSession's createSession settles
CreateSessionReturn ==
  /\ cpc = "createSession"
  /\ \E ok \in BOOLEAN :
       IF ok THEN /\ session' = TRUE
                  /\ events' = events \o <<"ok", "attempt">>
                  /\ cpc' = "send"
                  /\ UNCHANGED outcome
       ELSE Raise("other", Append(events, "other")) /\ UNCHANGED session
  /\ UNCHANGED <<client, endpoint, attempt, everOk, readyAtCall, ops, baseURL, status>>
  /\ UNCHANGED <<config, runVars, clientVars, parseVars, extraVars, shareVars, aliasVars,
                 mermaidVars>>

\* Copilot: session.sendAndWait settles; nothing is retried
SendReturn ==
  /\ cpc = "send"
  /\ \E r \in RequestResults :
       IF r = "ok" THEN /\ outcome' = Outcome("complete", "response", "none", attempt)
                        /\ events' = Append(events, r)
                        /\ cpc' = "idle"
       ELSE Raise(r, Append(events, r))
  /\ UNCHANGED <<client, session, endpoint, attempt, everOk, readyAtCall, ops, baseURL,
                 status>>
  /\ UNCHANGED <<config, runVars, clientVars, parseVars, extraVars, shareVars, aliasVars,
                 mermaidVars>>

\* what dispose does next: destroy the session if there is one, else stop the client
\* if there is one, else clear the flag and return
DisposeStep(hasSession, hasClient) ==
  IF hasSession THEN "destroy" ELSE IF hasClient THEN "stop" ELSE "idle"

\* CopilotSdkClient.dispose up to its first await, or to its end when there is
\* neither a session nor a client
Dispose ==
  /\ cpc = "idle"
  /\ config.variant = "copilot"
  /\ ops < MaxOps
  /\ ops' = ops + 1
  /\ cpc' = DisposeStep(session, client)
  /\ events' = IF cpc' = "idle" THEN <<>> ELSE <<cpc'>>
  /\ IF cpc' = "idle"
       THEN isAvailable' = FALSE /\ outcome' = Outcome("dispose", "done", "none", 0)
       ELSE UNCHANGED isAvailable /\ outcome' = NoOutcome
  /\ UNCHANGED <<client, session, endpoint, attempt, everOk, readyAtCall, baseURL, status>>
  /\ UNCHANGED <<config, runVars, inflight, calls, statusReady, extChecks, parseVars, extraVars,
                 shareVars, aliasVars, mermaidVars>>

\* await this.session.destroy() settles; a rejection ends dispose where it is
DestroyReturn ==
  /\ cpc = "destroy"
  /\ \E ok \in BOOLEAN :
       IF ok
         THEN /\ session' = FALSE
              /\ cpc' = DisposeStep(FALSE, client)
              /\ events' = IF cpc' = "idle" THEN Append(events, "ok")
                            ELSE events \o <<"ok", cpc'>>
              /\ IF cpc' = "idle"
                   THEN /\ isAvailable' = FALSE
                        /\ outcome' = Outcome("dispose", "done", "none", 0)
                   ELSE UNCHANGED <<isAvailable, outcome>>
         ELSE /\ outcome' = Outcome("dispose", "raised", "other", 0)
              /\ events' = Append(events, "throws")
              /\ cpc' = "idle"
              /\ UNCHANGED <<session, isAvailable>>
  /\ UNCHANGED <<client, endpoint, attempt, everOk, readyAtCall, ops, baseURL, status>>
  /\ UNCHANGED <<config, runVars, inflight, calls, statusReady, extChecks, parseVars, extraVars,
                 shareVars, aliasVars, mermaidVars>>

\* await this.client.stop() settles
StopReturn ==
  /\ cpc = "stop"
  /\ \E ok \in BOOLEAN :
       IF ok
         THEN /\ client' = FALSE
              /\ isAvailable' = FALSE
              /\ outcome' = Outcome("dispose", "done", "none", 0)
              /\ events' = Append(events, "ok")
         ELSE /\ outcome' = Outcome("dispose", "raised", "other", 0)
              /\ events' = Append(events, "throws")
              /\ UNCHANGED <<client, isAvailable>>
  /\ cpc' = "idle"
  /\ UNCHANGED <<session, endpoint, attempt, everOk, readyAtCall, ops, baseURL, status>>
  /\ UNCHANGED <<config, runVars, inflight, calls, statusReady, extChecks, parseVars, extraVars,
                 shareVars, aliasVars, mermaidVars>>

NextClient ==
  \/ CheckStatusCall \/ CloudFetchReturn \/ CopilotStartReturn
  \/ ListReturn \/ ProbeReturn
  \/ CompleteCall \/ CompleteAttemptReturn \/ BackoffDone
  \/ CreateSessionReturn \/ SendReturn
  \/ Dispose \/ DestroyReturn \/ StopReturn

SpecClient == InitClient /\ [][NextClient]_vars

(***************************************************************************)
(* getLocalModelClient and its callers in the web server.  Instances are   *)
(* numbered in the order of their construction.                            *)
(***************************************************************************)
MaxClients == 3    \* client instances constructed

Jobs == {"job1", "job2"}

\* if (!defaultClient || endpoint || model || cloudConfig) defaultClient = new ...;
\* return defaultClient
getLocalModelClient(withArgs) ==
  IF defaultClient = 0 \/ withArgs THEN created + 1 ELSE defaultClient

InitShare ==
  /\ config = [variant |-> "local", skipLocalModel |-> FALSE, onProgress |-> FALSE]
  /\ isAvailable = FALSE
  /\ RunIdle /\ ParseIdle /\ OpIdle /\ ExtraIdle /\ ShareIdle /\ AliasIdle /\ MermaidIdle

\* what obtaining instance c does to the instance table
Obtain(u, c, viaSingleton) ==
  /\ c <= MaxClients
  /\ holder' = [holder EXCEPT ![u] = c]
  /\ created' = IF c > created THEN c ELSE created
  /\ mutated' = IF c > created THEN Append(mutated, {}) ELSE mutated
  /\ defaultClient' = IF viaSingleton THEN c ELSE defaultClient

\* runGeneration: new Orchestrator(config).  The Copilot variant constructs its own
\* CopilotSdkClient; otherwise the constructor calls getLocalModelClient with the
\* request's endpoint, model and cloud configuration, any of which may be absent.
StartJob(u) ==
  /\ holder[u] = 0
  /\ \E useCopilotSdk \in BOOLEAN, withArgs \in BOOLEAN :
       IF useCopilotSdk THEN Obtain(u, created + 1, FALSE)
       ELSE Obtain(u, getLocalModelClient(withArgs), TRUE)
  /\ UNCHANGED <<runVars, clientVars, parseVars, extraVars, opVars, aliasVars, mermaidVars>>

\* step 1 of the job's run: this.localModel.checkStatus() writes to its client
JobCheckStatus(u) ==
  /\ holder[u] # 0
  /\ u \notin mutated[holder[u]]
  /\ mutated' = [mutated EXCEPT ![holder[u]] = @ \cup {u}]
  /\ UNCHANGED <<defaultClient, created, holder>>
  /\ UNCHANGED <<runVars, clientVars, parseVars, extraVars, opVars, aliasVars, mermaidVars>>

\* run() has returned or thrown: the Orchestrator and its reference are dropped
FinishJob(u) ==
  /\ holder[u] # 0
  /\ holder' = [holder EXCEPT ![u] = 0]
  /\ mutated' = [mutated EXCEPT ![holder[u]] = @ \ {u}]
  /\ UNCHANGED <<defaultClient, created>>
  /\ UNCHANGED <<runVars, clientVars, parseVars, extraVars, opVars, aliasVars, mermaidVars>>

\* handleStatusCheck: getLocalModelClient() then client.checkStatus(), up to its await
ServeStatus ==
  /\ holder["status"] = 0
  /\ LET c == getLocalModelClient(FALSE) IN
       /\ c <= MaxClients
       /\ holder' = [holder EXCEPT !["status"] = c]
       /\ created' = IF c > created THEN c ELSE created
       /\ defaultClient' = c
       /\ mutated' = [(IF c > created THEN Append(mutated, {}) ELSE mutated)
                        EXCEPT ![c] = @ \cup {"status"}]
  /\ UNCHANGED <<runVars, clientVars, parseVars, extraVars, opVars, aliasVars, mermaidVars>>

\* handleTestModel: getLocalModelClient(undefined, request.model) then checkStatus()
ServeTest ==
  /\ holder["test"] = 0
  /\ LET c == getLocalModelClient(TRUE) IN
       /\ c <= MaxClients
       /\ holder' = [holder EXCEPT !["test"] = c]
       /\ created' = c
       /\ defaultClient' = c
       /\ mutated' = Append(mutated, {"test"})
  /\ UNCHANGED <<runVars, clientVars, parseVars, extraVars, opVars, aliasVars, mermaidVars>>

\* the request's handler has sent its reply
Reply(u) ==
  /\ u \in {"status", "test"}
  /\ holder[u] # 0
  /\ holder' = [holder EXCEPT ![u] = 0]
  /\ mutated' = [mutated EXCEPT ![holder[u]] = @ \ {u}]
  /\ UNCHANGED <<defaultClient, created>>
  /\ UNCHANGED <<runVars, clientVars, parseVars, extraVars, opVars, aliasVars, mermaidVars>>

NextShare ==
  \/ \E u \in Jobs : StartJob(u) \/ JobCheckStatus(u) \/ FinishJob(u)
  \/ ServeStatus \/ ServeTest
  \/ \E u \in {"status", "test"} : Reply(u)

SpecShare == InitShare /\ [][NextShare]_vars

(***************************************************************************)
(* resolveModelId.  A string is the sequence of its characters, so that    *)
(* toLowerCase, includes and startsWith are computed.                      *)
(***************************************************************************)
MaxModels == 3    \* entries of a cached-model list

\* String.prototype.toLowerCase on the characters in use
LowerChar(ch) == CASE ch = "P" -> "p" [] ch = "M" -> "m" [] ch = "R" -> "r" [] OTHER -> ch
toLowerCase(str) == [i \in DOMAIN str |-> LowerChar(str[i])]

includes(str, ch) == \E i \in DOMAIN str : str[i] = ch

startsWith(str, prefix) ==
  Len(prefix) <= Len(str) /\ SubSeq(str, 1, Len(prefix)) = prefix

\* Array.prototype.find, given the indices of the elements that satisfy the test:
\* the first of them, 0 if there is none
FindFirst(hits) ==
  IF hits = {} THEN 0 ELSE CHOOSE i \in hits : \A j \in hits : i <= j

CachedModel(a, id) == [alias |-> a, modelId |-> id]

\* cached models: a short alias, a longer alias extending it, the short alias in
\* another case, a model whose id alone starts with the short name, an unrelated one
Catalogue ==
  { CachedModel(<<"p", "m">>,      <<"P", "M", "-", "g", ":", "1">>),
    CachedModel(<<"p", "m", "r">>, <<"P", "M", "R", "-", "g", ":", "1">>),
    CachedModel(<<"P", "M">>,      <<"q", "-", "c", ":", "2">>),
    CachedModel(<<"q">>,           <<"p", "m", "-", "c", ":", "3">>),
    CachedModel(<<"z">>,           <<"z", ":", "1">>) }

\* requested names: the aliases in both cases, a prefix of them, a full model id,
\* a name nothing matches and the empty name
Names ==
  { <<"p", "m">>, <<"P", "M">>, <<"p", "m", "r">>, <<"p">>,
    <<"p", "m", "-", "c", ":", "3">>, <<"x">>, <<>> }

ModelLists == UNION {[1..n -> Catalogue] : n \in 0..MaxModels}

resolveModelId_prefixFirst(a, models) ==
  IF includes(a, ":") THEN a
  ELSE LET lowerAlias == toLowerCase(a)
           i == FindFirst({k \in DOMAIN models :
                             \/ toLowerCase(models[k].alias) = lowerAlias
                             \/ startsWith(toLowerCase(models[k].modelId), lowerAlias)})
       IN IF i # 0 THEN models[i].modelId ELSE a

resolveModelId(a, models) ==
  IF includes(a, ":") THEN a
  ELSE LET lowerAlias == toLowerCase(a)
           exactAlias ==
             FindFirst({k \in DOMAIN models : toLowerCase(models[k].alias) = lowerAlias})
           startsWithMatch ==
             FindFirst({k \in DOMAIN models :
                          startsWith(toLowerCase(models[k].modelId), lowerAlias)})
       IN IF exactAlias # 0 THEN models[exactAlias].modelId
          ELSE IF startsWithMatch # 0 THEN models[startsWithMatch].modelId
          ELSE a

InitAlias ==
  /\ config = [variant |-> "local", skipLocalModel |-> FALSE, onProgress |-> FALSE]
  /\ isAvailable = FALSE
  /\ RunIdle /\ ParseIdle /\ OpIdle /\ ExtraIdle /\ ShareIdle /\ MermaidIdle
  /\ apc = "input"
  /\ alias \in Names
  /\ cachedModels \in ModelLists
  /\ resolved = <<>>

\* this.model = this.resolveModelId(this.model, cachedModels)
Resolve ==
  /\ apc = "input"
  /\ resolved' = resolveModelId(alias, cachedModels)
  /\ apc' = "resolved"
  /\ UNCHANGED <<alias, cachedModels>>
  /\ UNCHANGED <<runVars, clientVars, parseVars, extraVars, opVars, shareVars, mermaidVars>>

NextAlias == Resolve

SpecAlias == InitAlias /\ [][NextAlias]_vars

(***************************************************************************)
(* Harness for cleanMermaidDiagram: a model response is assembled line by  *)
(* line, then cleaned.                                                     *)
(***************************************************************************)
MaxDiagramLines == 4    \* lines of a text given to cleanMermaidDiagram

DiagramInputLines ==
  {"", "prose"} \cup GraphDecls \cup MermaidLines \cup Fences \cup GluedFences

InitMermaid ==
  /\ config = [variant |-> "local", skipLocalModel |-> FALSE, onProgress |-> FALSE]
  /\ isAvailable = FALSE
  /\ RunIdle /\ ParseIdle /\ OpIdle /\ ExtraIdle /\ ShareIdle /\ AliasIdle
  /\ mtext = <<>>
  /\ mpc = "input"
  /\ mout = <<>>

\* one more line of model output
AppendDiagramLine(l) ==
  /\ mpc = "input"
  /\ Len(mtext) < MaxDiagramLines
  /\ mtext' = Append(mtext, l)
  /\ UNCHANGED <<mpc, mout>>
  /\ UNCHANGED <<runVars, clientVars, parseVars, extraVars, opVars, shareVars, aliasVars>>

\* diagram = this.cleanMermaidDiagram(diagram)
CleanDiagram ==
  /\ mpc = "input"
  /\ mout' = cleanMermaidLines(mtext)
  /\ mpc' = "cleaned"
  /\ UNCHANGED mtext
  /\ UNCHANGED <<runVars, clientVars, parseVars, extraVars, opVars, shareVars, aliasVars>>

NextMermaid == (\E l \in DiagramInputLines : AppendDiagramLine(l)) \/ CleanDiagram

SpecMermaid == InitMermaid /\ [][NextMermaid]_vars

(***************************************************************************)
(* Properties                                                              *)
(***************************************************************************)
Terminal == {"completed", "failed"}

IsRunning(r)         == r.stepStatus = "running"
IsFinalCompletion(r) == r.stepNumber = 9 /\ r.stepStatus = "completed"

StepForward(old, new) ==
  \/ new = old
  \/ old = "pending" /\ new = "running"
  \/ old = "running" /\ new \in Terminal

\* C1: every step record's status only moves forward, pending -> running ->
\* completed or failed; a completed or failed record never changes again and no
\* record returns to pending or running.
C1_StatusForward ==
  [][\A i \in DOMAIN steps :
        /\ i \in DOMAIN steps'
        /\ steps'[i].id = steps[i].id
        /\ StepForward(steps[i].status, steps'[i].status)]_vars

C1_Witness ==
  /\ Len(steps) >= 3
  /\ steps[1].status = "completed"
  /\ steps[Len(steps)].status = "failed"

\* C2: the progress values handed to the callback during one run() never
\* decrease, whatever the order of running, detail, completed and failed reports.
C2_ProgressMonotone ==
  \A i \in DOMAIN reports :
    i > 1 => reports[i - 1].progress <= reports[i].progress

C2_Witness ==
  /\ Len(reports) > 10
  /\ reports[Len(reports)].stepStatus = "failed"
  /\ reports[Len(reports) - 1].stepStatus = "running"

\* C3 as stated: every report before the final step completes is below 100 and the
\* report of the final step's completion carries exactly 100.
C3_FinalIsHundred ==
  \A i \in DOMAIN reports :
    IF IsFinalCompletion(reports[i]) THEN reports[i].progress = 100
    ELSE reports[i].progress < 100

\* C3 amended: every report of run() is below 100, the report of the final step's
\* completion included, which carries exactly 99.
C3_FinalIsNinetyNine ==
  \A i \in DOMAIN reports :
    /\ reports[i].progress < 100
    /\ IsFinalCompletion(reports[i]) => reports[i].progress = 99

C3_Witness ==
  /\ reports # <<>>
  /\ IsFinalCompletion(reports[Len(reports)])
  /\ pc = "returned"

\* ids of the reports with status running, consecutive repeats dropped
RECURSIVE RunningIds(_, _, _)
RunningIds(rs, k, acc) ==
  IF k > Len(rs) THEN acc
  ELSE IF IsRunning(rs[k]) /\ (acc = <<>> \/ acc[Len(acc)] # rs[k].stepId)
       THEN RunningIds(rs, k + 1, Append(acc, rs[k].stepId))
       ELSE RunningIds(rs, k + 1, acc)

FixedOrder ==
  <<"check-foundry", "scan-repo", "analyze-files", "gen-architecture", "gen-tasks",
    "gen-diagram", "compile-pack", "ms-learn-validate", "write-files">>

\* C4: the ids reported running, repeats by detail reports aside, form a prefix of
\* the fixed nine-id order, and the whole order when the run returns.
C4_RunningOrder ==
  LET ids == RunningIds(reports, 1, <<>>) IN
  /\ Len(ids) <= Len(FixedOrder)
  /\ \A i \in DOMAIN ids : ids[i] = FixedOrder[i]
  /\ (pc = "returned" /\ config.onProgress) => ids = FixedOrder

C4_Witness ==
  /\ pc = "returned"
  /\ config.onProgress
  /\ Len(reports) > 20

\* C5: when a step's action throws, that step is failed with the error's message,
\* a failed report for it is the last report the observer gets, run() raises the
\* same error, and no later step is started.
C5_FailFast ==
  /\ \A i \in DOMAIN steps :
       steps[i].status = "failed" =>
         /\ i = Len(steps)
         /\ i = currentStepNumber
         /\ pc = "raised"
  /\ pc = "raised" =>
       /\ thrown # "none"
       /\ steps[Len(steps)].status = "failed"
       /\ steps[Len(steps)].error = thrown
       /\ result.kind = "error"
       /\ result.error = thrown
       /\ config.onProgress =>
            LET last == reports[Len(reports)] IN
            /\ last.stepStatus = "failed"
            /\ last.stepId = steps[Len(steps)].id
            /\ last.detail = thrown
            /\ \A j \in DOMAIN reports :
                 IsRunning(reports[j]) => reports[j].stepNumber <= last.stepNumber

C5_Witness ==
  /\ pc = "raised"
  /\ config.onProgress
  /\ steps[Len(steps)].id = "gen-tasks"
  /\ thrown = "Connection error"

\* C6: run() hands a pack to its caller only when all nine steps are completed;
\* when some step is failed the caller gets no pack at all.
C6_PackOnlyOnSuccess ==
  /\ result.kind = "pack" =>
       /\ Len(steps) = 9
       /\ \A i \in DOMAIN steps : steps[i].status = "completed"
       /\ result.pack.compiled
       /\ Len(result.pack.tasks) = 10
  /\ (\E i \in DOMAIN steps : steps[i].status = "failed") =>
       /\ result.kind # "pack"
       /\ result.pack = NoPack
  /\ result.kind # "pack" => result.pack = NoPack

C6_Witness ==
  /\ result.kind = "pack"
  /\ result.pack.architecture = "model summary"
  /\ calls > 3

\* C7: a step starts only after the previous one is completed or failed, at most
\* one inference request of the run is in flight, and none is in flight between
\* steps.
C7_Sequential ==
  /\ inflight \in {0, 1}
  /\ \A i \in DOMAIN steps : i < Len(steps) => steps[i].status \in Terminal
  /\ pc \in {"next", "completing", "failing", "finishing", "returned", "raised",
            "dispose-raised"}
       => inflight = 0

C7_Witness ==
  /\ pc = "summarize_wait"
  /\ fileIdx = 1
  /\ inflight = 1
  /\ keyFileSummaries = <<"summary">>

\* C8: a run whose client is not ready after its status check, or that has
\* skipLocalModel set, never calls complete(), fails no generation step, and when it
\* returns has the 10 fallback tasks, the fallback diagram starting with graph TD
\* and the non-empty fallback architecture.
C8_NoInferenceWithoutProvider ==
  (~statusReady \/ config.skipLocalModel) =>
    /\ calls = 0
    /\ pc = "raised" => steps[Len(steps)].id \in {"scan-repo", "write-files"}
    /\ pc = "returned" =>
         /\ \A i \in DOMAIN steps : steps[i].status = "completed"
         /\ tasks = generateFallbackTasks
         /\ diagram = generateFallbackDiagram(repoMetadata)
         /\ Head(diagram) = "graph TD"
         /\ architectureOverview = generateFallbackArchitecture(repoMetadata)
         /\ architectureOverview # ""

\* the part of C8 that rests on the configuration alone
C8_SkipLocalModel ==
  config.skipLocalModel =>
    /\ calls = 0
    /\ pc = "returned" =>
         /\ tasks = generateFallbackTasks
         /\ Head(diagram) = "graph TD"
         /\ architectureOverview # ""

\* C9: once gen-tasks is completed the task list has exactly 10 tasks with ids
\* 1..10 in list order, for every outcome of the two batches.
C9_TenTasks ==
  (Len(steps) >= 5 /\ steps[5].status = "completed") =>
    /\ Len(tasks) = 10
    /\ \A i \in DOMAIN tasks : tasks[i].id = i

C9_Witness ==
  /\ Len(steps) >= 5
  /\ steps[5].status = "completed"
  /\ Len(batch1) = 7
  /\ tasks[7].title.src = "text"
  /\ tasks[8].title.src = "fallback"
  /\ tasks[10].title = [src |-> "fallback", n |-> 10]

\* number of blocks of a text that yield a valid title
ValidBlocks(text) ==
  LET bs == taskBlocks(text) IN Cardinality({k \in DOMAIN bs : ValidTitle(bs[k])})

\* C10: parseTasksFromText returns either 5 to 10 parsed tasks with ids 1..n in
\* order, or the fixed fallback set, the latter whenever fewer than 5 blocks yield a
\* valid title; never 0 to 4 tasks and never more than 10.
C10_ParseOrFallback ==
  ppc = "parsed" =>
    /\ Len(pout) \in 5..10
    /\ \A i \in DOMAIN pout : pout[i].id = i
    /\ \/ pout = generateFallbackTasks
       \/ \A i \in DOMAIN pout : pout[i].title.src = "text"
    /\ ValidBlocks(ptext) < 5 => pout = generateFallbackTasks
    /\ ValidBlocks(ptext) >= 5 =>
         /\ Len(pout) = Min(ValidBlocks(ptext), 10)
         /\ \A i \in DOMAIN pout : pout[i].title.src = "text"

C10_Witness ==
  /\ ppc = "parsed"
  /\ Len(ptext) >= 6
  /\ ValidBlocks(ptext) = 4
  /\ pout = generateFallbackTasks

(***************************************************************************)
(* Properties of the provider client (SpecClient)                          *)
(***************************************************************************)
Count(ev, x) == Cardinality({i \in DOMAIN ev : ev[i] = x})
IsChat == config.variant \in {"local", "cloud"}
CompleteEnded == cpc = "idle" /\ outcome.op = "complete"
StatusEnded == cpc = "idle" /\ outcome.op = "checkStatus"

\* C11: in local and cloud mode a complete() call that passed the availability
\* guard and whose every request attempt raised a connection-class error made
\* exactly 3 attempts with exactly 2 backoff waits between them and raised the error
\* of the third attempt; no complete() call ever makes a 4th attempt.
C11_ThreeAttempts ==
  IsChat =>
    /\ Count(events, "attempt") <= 3
    /\ (/\ CompleteEnded
        /\ events # <<>>
        /\ "ok" \notin Range(events)
        /\ "other" \notin Range(events))
       => /\ SelectSeq(events, LAMBDA e : e # "discover") =
               <<"attempt", "connection", "wait", "attempt", "connection", "wait",
                 "attempt", "connection">>
          /\ outcome = Outcome("complete", "raised", "connection", 2)

C11_Witness ==
  /\ config.variant = "local"
  /\ CompleteEnded
  /\ outcome = Outcome("complete", "raised", "connection", 2)
  /\ Count(events, "wait") = 2
  /\ Count(events, "attempt") = 3

\* C12: in local and cloud mode, once a request attempt of complete() has raised an
\* error that is not connection-class, the call has ended by raising that error: it
\* is the last event of the call, so no wait, re-discovery or attempt follows it,
\* on whichever attempt it occurred.
C12_NoRetryOnOtherError ==
  (IsChat /\ "other" \in Range(events)) =>
    /\ CompleteEnded
    /\ events[Len(events)] = "other"
    /\ Count(events, "other") = 1
    /\ outcome = Outcome("complete", "raised", "other", Count(events, "attempt") - 1)
    /\ Count(events, "wait") = outcome.at

C12_Witness ==
  /\ config.variant = "cloud"
  /\ CompleteEnded
  /\ outcome = Outcome("complete", "raised", "other", 2)
  /\ events = <<"attempt", "connection", "wait", "attempt", "connection", "wait",
                "attempt", "other">>

\* a models-listing request was answered with a non-2xx status
ListingRefused(ev) ==
  \E i \in DOMAIN ev : i < Len(ev) /\ ev[i] = "list" /\ ev[i + 1] = "notOk"

\* C13: a local checkStatus that returns available: false has made the listing
\* call twice with a re-discovery in between and has probed the status endpoint.
C13_ProbeBeforeUnavailable ==
  (config.variant = "local" /\ StatusEnded /\ outcome.kind = "unavailable") =>
    /\ "probe" \in Range(events)
    /\ "discover" \in Range(events)
    /\ Count(events, "list") = 2

\* the same when every failed listing call was rejected rather than answered
C13_WhenListingThrows ==
  (/\ config.variant = "local" /\ StatusEnded /\ outcome.kind = "unavailable"
   /\ ~ListingRefused(events)) =>
    /\ "probe" \in Range(events)
    /\ "discover" \in Range(events)
    /\ Count(events, "list") = 2

\* C14: isReady is false until some status check has returned available, and a
\* complete() call that raised left isReady as it was when the call was made.
C14_ReadyOnlyAfterSuccess ==
  /\ isAvailable => everOk
  /\ (CompleteEnded /\ outcome.kind = "raised") => isAvailable = readyAtCall

\* the part of C14 about failed complete() calls, and its first part for the
\* variants that set the flag only after the check has succeeded
C14_FailedCompleteKeepsReady ==
  /\ (CompleteEnded /\ outcome.kind = "raised") => isAvailable = readyAtCall
  /\ (config.variant # "cloud" /\ isAvailable) => everOk

(***************************************************************************)
(* Properties of client sharing (SpecShare)                                *)
(***************************************************************************)
\* C15: two users active at the same time (jobs, or a job and a status or test
\* request) never hold the same client instance, and no instance has been written
\* by more than one of its active users.
C15_DistinctClients ==
  /\ \A u, v \in Users :
       (u # v /\ holder[u] # 0 /\ holder[v] # 0) => holder[u] # holder[v]
  /\ \A c \in DOMAIN mutated : Cardinality(mutated[c]) <= 1

(***************************************************************************)
(* Properties of resolveModelId (SpecAlias)                                *)
(***************************************************************************)
AliasEquals(m) == toLowerCase(m.alias) = toLowerCase(alias)
IdExtends(m) == startsWith(toLowerCase(m.modelId), toLowerCase(alias))
\* entry i is the first entry of the list with property Has
FirstWith(i, Has(_)) ==
  /\ i \in DOMAIN cachedModels
  /\ Has(cachedModels[i])
  /\ \A j \in 1..(i - 1) : ~Has(cachedModels[j])

\* C16: a name containing ':' is returned unchanged; otherwise the result is the
\* modelId of the first entry whose alias equals the name ignoring case, whatever
\* entries precede it; failing that, the modelId of the first entry whose modelId
\* starts with the name ignoring case; failing that, the name itself.
C16_AliasResolution ==
  apc = "resolved" =>
    IF \E i \in DOMAIN alias : alias[i] = ":" THEN resolved = alias
    ELSE IF \E i \in DOMAIN cachedModels : AliasEquals(cachedModels[i])
      THEN \E i \in DOMAIN cachedModels :
             FirstWith(i, AliasEquals) /\ resolved = cachedModels[i].modelId
    ELSE IF \E i \in DOMAIN cachedModels : IdExtends(cachedModels[i])
      THEN \E i \in DOMAIN cachedModels :
             FirstWith(i, IdExtends) /\ resolved = cachedModels[i].modelId
    ELSE resolved = alias

\* the short alias is asked for while the entry with the longer alias comes first
C16_Witness ==
  /\ apc = "resolved"
  /\ alias = <<"p", "m">>
  /\ Len(cachedModels) = 2
  /\ cachedModels[1].alias = <<"p", "m", "r">>
  /\ cachedModels[2].alias = <<"p", "m">>
  /\ resolved = <<"P", "M", "-", "g", ":", "1">>

(***************************************************************************)
(* Properties of cleanMermaidDiagram (SpecMermaid)                         *)
(***************************************************************************)
\* C17: whatever the input, the sanitizer's output is not empty and its first line
\* begins with a graph declaration; for an input without any declaration the
\* output is 'graph TD' followed by the empty remainder.
C17_StartsWithDeclaration ==
  mpc = "cleaned" =>
    /\ mout # <<>>
    /\ mout[1] # <<>>
    /\ mout[1][1] \in GraphDecls
    /\ (\A i \in DOMAIN mtext : Body(mtext[i]) \notin GraphDecls)
         => mout = << <<"graph TD">>, <<>> >>

\* prose and a fence come first, and no declaration follows
C17_Witness ==
  /\ mpc = "cleaned"
  /\ mtext = <<"prose", "fence", "A-->B", "fence">>
  /\ mout = << <<"graph TD">>, <<>> >>

\* what filtering the input line by line yields: fence markers gone, nothing from
\* before the first declaration, then only blank, declaration and whitelisted lines
LinewiseFiltered(text) ==
  LET bodies == [i \in DOMAIN text |-> Body(text[i])]
      starts == {i \in DOMAIN text : bodies[i] \in GraphDecls}
      first  == CHOOSE i \in starts : \A j \in starts : i <= j
      rest   == SubSeq(text, first, Len(text))
      kept   == SelectSeq(rest, LAMBDA l :
                  /\ l \notin Fences
                  /\ Body(l) \in {""} \cup GraphDecls \cup MermaidLines)
  IN IF starts = {} THEN <<>>
     ELSE TrimBlank([i \in DOMAIN kept |->
                       IF Body(kept[i]) = "" THEN <<>> ELSE <<Body(kept[i])>>])

\* C18: every output line is blank, a declaration or a whitelisted line, nothing
\* else of the input is in the output, and the kept lines are in input order.
C18_OnlyWhitelistedLines ==
  mpc = "cleaned" =>
    /\ \A i \in DOMAIN mout :
         \/ mout[i] = <<>>
         \/ Len(mout[i]) = 1 /\ mout[i][1] \in GraphDecls \cup MermaidLines
    /\ (\E i \in DOMAIN mtext : Body(mtext[i]) \in GraphDecls)
         => mout = LinewiseFiltered(mtext)

\* the same for texts whose fence markers all stand on lines of their own
C18_WhenFencesStandAlone ==
  (mpc = "cleaned" /\ \A i \in DOMAIN mtext : mtext[i] \notin GluedFences) =>
    /\ \A i \in DOMAIN mout :
         \/ mout[i] = <<>>
         \/ Len(mout[i]) = 1 /\ mout[i][1] \in GraphDecls \cup MermaidLines
    /\ (\E i \in DOMAIN mtext : mtext[i] \in GraphDecls)
         => mout = LinewiseFiltered(mtext)

(***************************************************************************)
(* Further properties of the pipeline (Spec)                               *)
(***************************************************************************)
\* the reports of step number n, in delivery order
ReportsOf(n) == SelectSeq(reports, LAMBDA r : r.stepNumber = n)

\* C19: with an observer configured, the reports come step by step; those of a
\* step are one 'running' report without detail, then 'running' reports with a
\* detail, then, once the step has ended and only then, exactly one report
\* carrying the step's terminal status; every report has totalSteps = 9 and a
\* stepNumber in 1..9, and the step stays 'running' through its detail reports.
C19_ReportStructure ==
  config.onProgress =>
    /\ \A i \in DOMAIN reports :
         /\ reports[i].totalSteps = 9
         /\ reports[i].stepNumber \in 1..9
         /\ reports[i].stepNumber <= Len(steps)
         /\ i < Len(reports) => reports[i].stepNumber <= reports[i + 1].stepNumber
    /\ \A n \in DOMAIN steps :
         LET b == ReportsOf(n)
             ended == steps[n].status \in Terminal
             runs == IF ended THEN Len(b) - 1 ELSE Len(b)
         IN /\ runs >= 1
            /\ \A k \in DOMAIN b : b[k].stepId = steps[n].id
            /\ b[1].stepStatus = "running" /\ b[1].detail = "none"
            /\ \A k \in 2..runs : b[k].stepStatus = "running" /\ b[k].detail # "none"
            /\ ended => b[Len(b)].stepStatus = steps[n].status

\* a returned run whose analyze-files step reported a detail for each of two files
C19_Witness ==
  /\ config.onProgress
  /\ pc = "returned"
  /\ Len(ReportsOf(3)) >= 4
  /\ ReportsOf(3)[Len(ReportsOf(3))].stepStatus = "completed"
  /\ ReportsOf(3)[2].stepStatus = "running"

\* C20: the texts answered by the model carry no Difficulty field here, so every
\* difficulty is set by the program; then, once gen-tasks has completed, tasks 1-3
\* are easy, tasks 4-7 medium and tasks 8-10 hard.
C20_DifficultySplit ==
  (Len(steps) >= 5 /\ steps[5].status = "completed") =>
    /\ Len(tasks) = 10
    /\ \A i \in 1..3 : tasks[i].difficulty = "easy"
    /\ \A i \in 4..7 : tasks[i].difficulty = "medium"
    /\ \A i \in 8..10 : tasks[i].difficulty = "hard"

(***************************************************************************)
(* Further properties of the provider client (SpecClient)                  *)
(***************************************************************************)
\* C21: in cloud mode a checkStatus whose models listing was answered with a
\* non-success response returns available: true with the configured model as the
\* only listed model and as the active model, and isReady is true afterwards; the
\* cloud client never re-discovers and its endpoint stays the configured one.
C21_CloudListingUnsupported ==
  config.variant = "cloud" =>
    /\ endpoint = 0
    /\ "discover" \notin Range(events)
    /\ client => baseURL = 0
    /\ (StatusEnded /\ events = <<"models", "notOk">>) =>
         /\ status = Status(TRUE, "configured", "configured")
         /\ isReady

C21_Witness ==
  /\ config.variant = "cloud"
  /\ StatusEnded
  /\ events = <<"models", "notOk">>
  /\ status.available
  /\ status.models = "configured"
  /\ isReady

\* C22: a Copilot complete() makes at most one send and never waits or re-discovers;
\* one that returned a reply made exactly one send; an error of session creation or
\* of the send ends the call with that error as its last event; and a call made
\* while the client was not available raised the unavailable error with no session
\* created and nothing sent.
C22_SinglePromptNoRetry ==
  (config.variant = "copilot" /\ (cpc \in {"createSession", "send"} \/ CompleteEnded)) =>
    /\ Count(events, "attempt") <= 1
    /\ Count(events, "createSession") <= 1
    /\ "wait" \notin Range(events)
    /\ "discover" \notin Range(events)
    /\ endpoint = 0
    /\ (CompleteEnded /\ outcome.kind = "response") =>
         /\ Count(events, "attempt") = 1
         /\ events[Len(events)] = "ok"
    /\ (CompleteEnded /\ outcome.kind = "raised" /\ readyAtCall) =>
         /\ outcome.error \in {"connection", "other"}
         /\ events[Len(events)] = outcome.error
         /\ Count(events, "connection") + Count(events, "other") = 1
    /\ (CompleteEnded /\ ~readyAtCall) =>
         /\ outcome = Outcome("complete", "raised", "unavailable", 0)
         /\ events = <<>>

\* a failed status check, then a complete() that is refused
C22_Witness ==
  /\ config.variant = "copilot"
  /\ CompleteEnded
  /\ client
  /\ ~readyAtCall
  /\ outcome.error = "unavailable"

\* C23: when a checkStatus call has returned, isReady equals the available field
\* of the status it returned.
C23_ReadyEqualsAvailable ==
  StatusEnded => (isReady <=> status.available)

\* C24: in local mode, when no operation is running or a chat request is in flight,
\* a client that holds a transport holds one built for the current endpoint.
C24_TransportTargetsEndpoint ==
  (config.variant = "local" /\ client /\ cpc \in {"idle", "request"}) =>
    baseURL = endpoint

(***************************************************************************)
(* Further properties of the run (Spec)                                    *)
(***************************************************************************)
\* C25: with the Copilot variant, when run() has ended, by returning the pack or by
\* raising, the client has been disposed, so isReady is false.
C25_DisposedWhenRunEnds ==
  (config.variant = "copilot" /\ ~RunActive) => ~isReady

\* C26: the analyze-files step never fails: while its loop runs, the files handled
\* so far are exactly the first fileIdx of the at most 10 files to process, each
\* summarised or skipped; every skipped file has its Skipped detail report; and a
\* step in which a file was skipped still handles every file to process and ends
\* completed.
C26_FileFailureSkipped ==
  /\ \A i \in DOMAIN steps : steps[i].id = "analyze-files" => steps[i].status # "failed"
  /\ currentStepNumber = 3 => pc \notin {"failing", "raised"}
  /\ pc \in {"file_loop", "summarize_wait"} =>
       /\ Len(keyFileSummaries) = fileIdx
       /\ fileIdx <= filesToProcess
       /\ filesToProcess <= 10
       /\ pc = "summarize_wait" => fileIdx < filesToProcess
  /\ config.onProgress =>
       Cardinality({j \in DOMAIN reports : reports[j].detail = "Skipped"})
         = Count(keyFileSummaries, "skipped")
  /\ \A j \in DOMAIN reports :
       reports[j].detail = "Skipped" =>
         reports[j].stepId = "analyze-files" /\ reports[j].stepStatus = "running"
  /\ (/\ "skipped" \in Range(keyFileSummaries)
      /\ pc \notin {"file_loop", "summarize_wait"}) =>
       /\ Len(keyFileSummaries) = filesToProcess
       /\ Len(keyFileSummaries) <= 10
       /\ \/ pc = "completing" /\ currentStepNumber = 3
          \/ steps[3].status = "completed"

\* eleven key files, the first skipped, the tenth summarised, the eleventh left out
C26_Witness ==
  /\ repoMetadata.keyFiles = 11
  /\ steps[3].status = "completed"
  /\ Len(keyFileSummaries) = 10
  /\ keyFileSummaries[1] = "skipped"
  /\ keyFileSummaries[10] = "summary"
  /\ config.onProgress

\* the second batch was requested: its detail report has been delivered
Batch2Requested ==
  \E j \in DOMAIN reports : reports[j].detail = "Generating tasks batch 2/2"

\* C27: when the gen-tasks action returns with a first batch but an empty batch2
\* (parseTasksFromText never returns an empty list, so the second batch raised), the
\* tasks are the first batch followed by the last 10 - n tasks of the fallback set,
\* renumbered, and the step goes on to Completed; the step fails only on an error
\* of the first batch, with no first batch kept and no second batch requested.
C27_BatchErrors ==
  /\ (pc = "completing" /\ currentStepNumber = 5 /\ batch1 # <<>> /\ batch2 = <<>>) =>
       LET have   == Min(Len(batch1), 10)
           needed == 10 - have
       IN /\ Len(tasks) = 10
          /\ \A i \in 1..have : tasks[i] = [batch1[i] EXCEPT !.id = i]
          /\ \A i \in 1..needed :
               tasks[have + i] =
                 [generateFallbackTasks[10 - needed + i] EXCEPT !.id = have + i]
  /\ pc \in {"batch2", "batch2_wait"} => currentStepNumber = 5 /\ batch1 # <<>>
  /\ (currentStepNumber = 5 /\ pc \in {"failing", "raised"}) =>
       /\ batch1 = <<>>
       /\ batch2 = <<>>
       /\ tasks = <<>>
       /\ thrown = "Connection error"
       /\ ~Batch2Requested
  /\ \A i \in DOMAIN steps :
       (steps[i].id = "gen-tasks" /\ steps[i].status = "failed") =>
         pc = "raised" /\ currentStepNumber = 5

\* five tasks from the first batch, the second batch failed, five fallback tasks
C27_Witness ==
  /\ pc = "completing"
  /\ currentStepNumber = 5
  /\ Len(batch1) = 5
  /\ batch2 = <<>>
  /\ Batch2Requested
  /\ tasks[5].title.src # "fallback"
  /\ tasks[6] = [generateFallbackTasks[6] EXCEPT !.id = 6]

\* the other case of C27: the first batch raised and the run ended
C27_FirstBatchFailed ==
  /\ pc = "raised"
  /\ steps[Len(steps)].id = "gen-tasks"
  /\ config.onProgress

(***************************************************************************)
(* Properties of the web generation job (SpecJob)                          *)
(***************************************************************************)
JobStatusMove(old, new) ==
  \/ new = old
  \/ old = "none" /\ new = "pending"
  \/ old = "pending" /\ new = "running"
  \/ old = "running" /\ new \in {"completed", "failed"}

\* what a request finds in the job at one moment
JobConsistent ==
  LET v == JobView
  IN /\ v.status = job.status       \* the callback never writes the status
     /\ (v.progress = 100) <=> (v.status = "completed")
     /\ v.status = "completed" =>
          /\ Len(v.steps) = 10
          /\ \A i \in DOMAIN v.steps : v.steps[i].stepStatus = "completed"

\* C28: at every moment the job's progress is 100 exactly when its status is
\* completed, and a completed job has ten step entries, all completed; and in every
\* step the job's status stays as it is or moves from pending to running or from
\* running to completed or failed (or from no job to pending).
C28_JobLifecycle ==
  /\ []JobConsistent
  /\ [][JobStatusMove(job.status, job'.status)]_vars

C28_Witness ==
  /\ jpc = "done"
  /\ job.status = "completed"
  /\ job.progress = 100
  /\ pc = "returned"
  /\ reports[Len(reports)].progress = 99

\* a job that failed in the run, its failed step kept in the job
C28_FailedJob ==
  /\ jpc = "done"
  /\ job.status = "failed"
  /\ job.steps[6].stepStatus = "failed"

(***************************************************************************)
(* Properties of model loading (SpecLoad) and of the polling page (SpecPoll) *)
(***************************************************************************)
\* C29: among the writes to a model's entry, completed is never directly followed
\* by failed (an accepted load writes loading in between), and no write of a load
\* follows a write of a later load.
C29_LoadOutcomeKept ==
  /\ \A i \in DOMAIN writes :
       (i < Len(writes) /\ writes[i].status = "completed") =>
         writes[i + 1].status # "failed"
  /\ \A i, k \in DOMAIN writes : i < k => writes[i].by <= writes[k].by

\* C30: after a reply has said completed or failed, or the user has cancelled, the
\* loop makes no further GET /api/job request.
C30_NoPollAfterEnd == pollsAfter = 0

\* requests after the end are made only for a failed job whose message the catch
\* of the loop does not rethrow
C30_OnlySwallowedFailure ==
  pollsAfter > 0 =>
    /\ job.status = "failed"
    /\ ~Rethrown(IF job.error = "" THEN "Generation failed" ELSE job.error)

====
